---------------------------- MODULE Spec2Model ----------------------------
(***************************************************************************)
(* Model of the citation utilities of deep_research_ui                     *)
(* (utils/citations.py): convert_citations_to_superscript and              *)
(* extract_citations_from_annotations.                                     *)
(*                                                                         *)
(* A text is a sequence of characters; a character is a string.  The three *)
(* non-ASCII glyphs of the citation marker are the characters OPEN         *)
(* (U+3010), CLOSE (U+3011) and DAGGER (U+2020).  The two regular          *)
(* expressions of convert_citations_to_superscript are evaluated character *)
(* by character, the way re.sub evaluates them: leftmost match first,      *)
(* greedy repetition, scanning resumed at the end of each match.           *)
(***************************************************************************)
EXTENDS Integers, Sequences, FiniteSets

VARIABLES parts,             \* the pieces the input text was drawn from
          markdown_content,  \* argument of convert_citations_to_superscript
          converted_text,    \* local of the function, after the first re.sub
          final_text,        \* its return value
          annotations,       \* argument of extract_citations_from_annotations
          citations,         \* its return value, a dict in insertion order
          formatted,         \* return value of format_citations_for_display
          pc                 \* "call" before the function ran, "done" after

\* utils/logging_sinks.py
VARIABLES sinks,             \* MultiSink.sinks: the list of sinks, in order
          ui_buffer,         \* the list the UISinks were constructed with
          fs,                \* the directory and the file at FileSink.path
          file_sink,         \* whether FileSink(path) has been constructed
          calls,             \* every sink.write executed, in call order
          op,                \* the last operation called and its arguments
          initial            \* sinks, ui_buffer and fs as they were at the start

\* services/agents_service.py (poll_run) and the flag of app.py
VARIABLES agents_client,     \* whether AgentsService.agents_client is set
          on_citation,       \* the callback argument of poll_run, or None
          poll_pc,           \* where poll_run stands
          poll_at,           \* the call the loop of poll_run waits in
          iteration_count,   \* local of poll_run
          last_message_id,   \* local of poll_run
          seen_citations,    \* local of poll_run: the set of urls seen
          run,               \* local of poll_run: the status runs.get returned
          progress,          \* the lines poll_run passed to sinks.write
          on_citation_calls, \* the calls on_citation(title, url) made
          result,            \* what poll_run returned
          research_status,   \* st.session_state.research_status
          remote_status,     \* the remote run: the status runs.get reports
          remote_message     \* the remote thread: its last agent message

\* app.py (main, run_research) and the service as run_research drives it
VARIABLES project_client,    \* whether AgentsService.project_client is set
          remote_calls,      \* the remote calls made, in call order
          service_op,        \* the last AgentsService operation called
          app_pc,            \* where main / run_research stands
          session,           \* st.session_state: ui_buffer, citations,
                             \* final_report, research_metrics
          config,            \* the configuration of the run: save_files
          files              \* research_progress.txt and research_report.md

citation_vars == <<parts, markdown_content, converted_text, final_text,
                   annotations, citations, formatted, pc>>

sink_vars == <<sinks, ui_buffer, fs, file_sink, calls, op, initial>>

poll_vars == <<agents_client, on_citation, poll_pc, poll_at, iteration_count,
               last_message_id, seen_citations, run, progress,
               on_citation_calls, result, research_status,
               remote_status, remote_message>>

app_vars == <<project_client, remote_calls, service_op, app_pc, session,
              config, files>>

vars == <<citation_vars, sink_vars, poll_vars, app_vars>>

\* Python's None
None == "None"

\* no message: what get_last_message_by_role returns for a thread without
\* agent message
NoMessage == [id |-> None, text_messages |-> <<>>, url_citation_annotations |-> <<>>]

\* poll_run has not returned
NoResult == [status |-> None, final_message |-> NoMessage]

\* the service while the utilities are used on their own: poll_run not called
PollIdle ==
    /\ agents_client = FALSE
    /\ on_citation = None
    /\ poll_pc = "idle"
    /\ poll_at = None
    /\ iteration_count = 0
    /\ last_message_id = None
    /\ seen_citations = {}
    /\ run = None
    /\ progress = <<>>
    /\ on_citation_calls = <<>>
    /\ result = NoResult
    /\ research_status = "idle"
    /\ remote_status = None
    /\ remote_message = NoMessage

\* no file, no directory
NoFile == [dir |-> FALSE, exists |-> FALSE, content |-> <<>>]

\* before any operation
NoOp == [n |-> 0, name |-> "none", sink |-> "none", line |-> <<>>, raised |-> FALSE]

\* the sinks while the citation utilities run: nothing constructed
SinksIdle ==
    /\ sinks = <<>>
    /\ ui_buffer = <<>>
    /\ fs = NoFile
    /\ file_sink = FALSE
    /\ calls = <<>>
    /\ op = NoOp
    /\ initial = [sinks |-> <<>>, ui_buffer |-> <<>>, fs |-> NoFile]

\* before any operation of the service
NoServiceOp == [n |-> 0, name |-> "none", outcome |-> "none", succeeded |-> FALSE]

\* research_metrics = {}
NoMetrics == [present |-> FALSE, total_citations |-> 0, iteration_count |-> 0,
              has_final_message |-> FALSE, final_message_citations |-> 0]

\* init_session_state: the values of a new session
EmptySession == [ui_buffer |-> <<>>, citations |-> <<>>, final_report |-> <<>>,
                 research_metrics |-> NoMetrics]

\* a file of the working directory that does not exist
Absent == [dir |-> TRUE, exists |-> FALSE, content |-> <<>>]

NoFiles == [progress |-> Absent, report |-> Absent]

\* the application while the utilities and the service are used on their own
AppIdle ==
    /\ project_client = FALSE
    /\ remote_calls = <<>>
    /\ service_op = NoServiceOp
    /\ app_pc = "none"
    /\ session = EmptySession
    /\ config = [save_files |-> FALSE]
    /\ files = NoFiles

---------------------------------------------------------------------------
(* Characters and character classes                                        *)

OPEN == "U+3010"
CLOSE == "U+3011"
DAGGER == "U+2020"

\* one unit of the model's texts that stands for as many characters "9" in
\* a row as int() accepts digits: a digit string too long to be written out
NINES == "9 x 4300"

\* \d of the pattern, restricted to the ASCII digits
Digits == {"0", "1", "2", "3", "4", "5", "6", "7", "8", "9", NINES}

\* the letters the model's texts are written with
Letters == {"s", "u", "p", "x"}

\* \w of the pattern: letters, digits and the underscore
WordChars == Letters \cup Digits \cup {"_"}

\* \s of the pattern
SpaceChars == {" ", "\n", "\t"}

\* the characters of the model's texts
Chars ==
    WordChars \cup SpaceChars \cup {OPEN, CLOSE, DAGGER, ":", ",", "<", ">", "/"}

IsDigit(ch) == ch \in Digits
IsWord(ch) == ch \in WordChars
IsSpace(ch) == ch \in SpaceChars

SUP_OPEN == <<"<", "s", "u", "p", ">">>
SUP_CLOSE == <<"<", "/", "s", "u", "p", ">">>

---------------------------------------------------------------------------
(* int() and str() on decimal digit strings                                *)

DigitVal(ch) ==
    CASE ch = "0" -> 0 [] ch = "1" -> 1 [] ch = "2" -> 2 [] ch = "3" -> 3
      [] ch = "4" -> 4 [] ch = "5" -> 5 [] ch = "6" -> 6 [] ch = "7" -> 7
      [] ch = "8" -> 8 [] ch = "9" -> 9

DigitChar(d) ==
    CASE d = 0 -> "0" [] d = 1 -> "1" [] d = 2 -> "2" [] d = 3 -> "3"
      [] d = 4 -> "4" [] d = 5 -> "5" [] d = 6 -> "6" [] d = 7 -> "7"
      [] d = 8 -> "8" [] d = 9 -> "9"

\* sys.get_int_max_str_digits() of the interpreter as it is started
INT_MAX_STR_DIGITS == 4300

\* the number of characters the unit ch stands for
Width(ch) == IF ch = NINES THEN INT_MAX_STR_DIGITS ELSE 1

\* len(ds) of a digit string
RECURSIVE DigitCount(_)
DigitCount(ds) ==
    IF Len(ds) = 0 THEN 0 ELSE Width(ds[1]) + DigitCount(Tail(ds))

\* int(num) raises ValueError: the digit string is longer than the limit
\* of the integer string conversion
IntRaises(ds) == DigitCount(ds) > INT_MAX_STR_DIGITS

\* int(num): the value of a non-empty digit string (leading zeros vanish),
\* for the strings on which int() returns; where IntRaises(ds) holds int()
\* has no value and the caller raises
RECURSIVE ParseInt(_)
ParseInt(ds) ==
    IF Len(ds) = 0 THEN 0
    ELSE 10 * ParseInt(SubSeq(ds, 1, Len(ds) - 1)) + DigitVal(ds[Len(ds)])

\* str(num): the shortest decimal digit string of a natural number
RECURSIVE ToStr(_)
ToStr(n) ==
    IF n < 10 THEN <<DigitChar(n)>>
    ELSE Append(ToStr(n \div 10), DigitChar(n % 10))

---------------------------------------------------------------------------
(* Regular-expression primitives                                           *)

\* whether the literal lit stands in t at position i
StartsWith(t, i, lit) ==
    /\ i + Len(lit) - 1 <= Len(t)
    /\ SubSeq(t, i, i + Len(lit) - 1) = lit

\* \d* from position i: the first position that holds no digit
RECURSIVE SkipDigits(_, _)
SkipDigits(t, i) ==
    IF i <= Len(t) /\ IsDigit(t[i]) THEN SkipDigits(t, i + 1) ELSE i

\* \w* from position i
RECURSIVE SkipWord(_, _)
SkipWord(t, i) ==
    IF i <= Len(t) /\ IsWord(t[i]) THEN SkipWord(t, i + 1) ELSE i

\* \s* from position i
RECURSIVE SkipSpace(_, _)
SkipSpace(t, i) ==
    IF i <= Len(t) /\ IsSpace(t[i]) THEN SkipSpace(t, i + 1) ELSE i

\* whether t holds character ch at position i
At(t, i, ch) == i <= Len(t) /\ t[i] = ch

---------------------------------------------------------------------------
(* First pass: pattern = OPEN \d+ : (\d+) DAGGER \w+ CLOSE                 *)

\* the position after a match of pattern at i, 0 when it does not match
MarkerEnd(t, i) ==
    LET g == i + 1
        colon == SkipDigits(t, g)
        c == colon + 1
        dag == SkipDigits(t, c)
        w == dag + 1
        close == SkipWord(t, w)
    IN  IF /\ At(t, i, OPEN)
           /\ colon > g /\ At(t, colon, ":")
           /\ dag > c /\ At(t, dag, DAGGER)
           /\ close > w /\ At(t, close, CLOSE)
        THEN close + 1
        ELSE 0

\* the pattern with the group index captured in place of the citation index
MarkerGroupIndex(t, i) == SubSeq(t, i + 1, SkipDigits(t, i + 1) - 1)

\* match.group(1) of a match of pattern at i
MarkerGroup1(t, i) ==
    LET c == SkipDigits(t, i + 1) + 1
    IN  SubSeq(t, c, SkipDigits(t, c) - 1)

\* replacement with the captured digits converted by int() first
replacement_as_int(t, i) ==
    SUP_OPEN \o ToStr(ParseInt(MarkerGroup1(t, i))) \o SUP_CLOSE

\* replacement(match): <sup>citation_number</sup>
replacement(t, i) == SUP_OPEN \o MarkerGroup1(t, i) \o SUP_CLOSE

\* re.sub(pattern, replacement, t), from position i on
RECURSIVE SubMarkers(_, _)
SubMarkers(t, i) ==
    IF i > Len(t) THEN <<>>
    ELSE IF MarkerEnd(t, i) # 0
         THEN replacement(t, i) \o SubMarkers(t, MarkerEnd(t, i))
         ELSE <<t[i]>> \o SubMarkers(t, i + 1)

---------------------------------------------------------------------------
(* Second pass:                                                            *)
(* consecutive_pattern = (<sup>\d+</sup>)(\s*,?\s*<sup>\d+</sup>)+         *)

\* the position after a match of <sup>\d+</sup> at i, 0 when none
SpanEnd(t, i) ==
    LET d == i + Len(SUP_OPEN)
        e == SkipDigits(t, d)
    IN  IF StartsWith(t, i, SUP_OPEN) /\ e > d /\ StartsWith(t, e, SUP_CLOSE)
        THEN e + Len(SUP_CLOSE)
        ELSE 0

\* the repeated group without the comma: \s*<sup>\d+</sup>
SepSpanEnd_NoComma(t, i) == SpanEnd(t, SkipSpace(t, i))

\* \s*,* from position i on, then \s*
RECURSIVE SkipCommas(_, _)
SkipCommas(t, i) ==
    IF At(t, i, ",") THEN SkipCommas(t, i + 1) ELSE i

\* the repeated group with any number of commas: \s*,*\s*<sup>\d+</sup>
SepSpanEnd_ManyCommas(t, i) ==
    SpanEnd(t, SkipSpace(t, SkipCommas(t, SkipSpace(t, i))))

\* the repeated group with any one character in place of the comma:
\* \s*.?\s*<sup>\d+</sup>, the match with the optional character taken
\* tried first
SepSpanEnd_AnyChar(t, i) ==
    LET a == SkipSpace(t, i)
        taken == IF a <= Len(t) /\ t[a] # "\n" THEN SpanEnd(t, SkipSpace(t, a + 1)) ELSE 0
    IN  IF taken # 0 THEN taken ELSE SpanEnd(t, a)

\* the position after a match of \s*,?\s*<sup>\d+</sup> at i, 0 when none
SepSpanEnd(t, i) ==
    LET a == SkipSpace(t, i)
        b == IF At(t, a, ",") THEN a + 1 ELSE a
    IN  SpanEnd(t, SkipSpace(t, b))

\* the greedy repetition ( ... )+ : the position after the last repetition
\* that matches from cur on (cur itself when none does)
RECURSIVE ExtendRun(_, _)
ExtendRun(t, cur) ==
    IF SepSpanEnd(t, cur) = 0 THEN cur ELSE ExtendRun(t, SepSpanEnd(t, cur))

\* consecutive_pattern without the +: one repetition of the group only
RunEnd_OneRepetition(t, i) ==
    IF SpanEnd(t, i) = 0 THEN 0 ELSE SepSpanEnd(t, SpanEnd(t, i))

\* the position after a match of consecutive_pattern at i, 0 when none
RunEnd(t, i) ==
    LET first == SpanEnd(t, i)
    IN  IF first = 0 THEN 0
        ELSE IF ExtendRun(t, first) = first THEN 0
             ELSE ExtendRun(t, first)

\* re.findall(r"<sup>(\d+)</sup>", s), from position i on
RECURSIVE FindNumbers(_, _)
FindNumbers(s, i) ==
    IF i > Len(s) THEN <<>>
    ELSE IF SpanEnd(s, i) # 0
         THEN <<SubSeq(s, i + Len(SUP_OPEN), SpanEnd(s, i) - Len(SUP_CLOSE) - 1)>>
              \o FindNumbers(s, SpanEnd(s, i))
         ELSE FindNumbers(s, i + 1)

\* set(int(num) for num in citation_numbers)
IntSet(nums) == {ParseInt(nums[k]) : k \in 1..Len(nums)}

\* the least element of a non-empty set of naturals
MinOf(S) == CHOOSE x \in S : \A y \in S : x <= y

\* the greatest element of a non-empty set of naturals
MaxOf(S) == CHOOSE x \in S : \A y \in S : x >= y

\* sorted(S, reverse=True)
RECURSIVE SortedDescending(_)
SortedDescending(S) ==
    IF S = {} THEN <<>>
    ELSE <<MaxOf(S)>> \o SortedDescending(S \ {MaxOf(S)})

\* sorted(S): the elements of S in ascending order
RECURSIVE Sorted(_)
Sorted(S) ==
    IF S = {} THEN <<>>
    ELSE <<MinOf(S)>> \o Sorted(S \ {MinOf(S)})

\* ",".join(str(num) for num in ns)
RECURSIVE JoinComma(_)
JoinComma(ns) ==
    IF Len(ns) = 0 THEN <<>>
    ELSE IF Len(ns) = 1 THEN ToStr(ns[1])
         ELSE ToStr(ns[1]) \o <<",">> \o JoinComma(Tail(ns))

\* sorted(int(num) for num in nums): ascending, every occurrence kept
RECURSIVE SortedKeepingDuplicates(_)
SortedKeepingDuplicates(nums) ==
    IF Len(nums) = 0 THEN <<>>
    ELSE LET m == MinOf(IntSet(nums))
             k == CHOOSE k \in 1..Len(nums) : ParseInt(nums[k]) = m
         IN  <<m>> \o SortedKeepingDuplicates(
                          SubSeq(nums, 1, k - 1) \o SubSeq(nums, k + 1, Len(nums)))

\* consolidate_and_sort_citations without set(): duplicates are kept
consolidate_keeping_duplicates(citation_text) ==
    LET unique_sorted_citations ==
            SortedKeepingDuplicates(FindNumbers(citation_text, 1))
    IN  IF Len(unique_sorted_citations) = 1
        THEN SUP_OPEN \o ToStr(unique_sorted_citations[1]) \o SUP_CLOSE
        ELSE SUP_OPEN \o JoinComma(unique_sorted_citations) \o SUP_CLOSE

\* consolidate_and_sort_citations(match), citation_text = match.group(0)
consolidate_and_sort_citations(citation_text) ==
    LET citation_numbers == FindNumbers(citation_text, 1)
        unique_sorted_citations == Sorted(IntSet(citation_numbers))
    IN  IF Len(unique_sorted_citations) = 1
        THEN SUP_OPEN \o ToStr(unique_sorted_citations[1]) \o SUP_CLOSE
        ELSE SUP_OPEN \o JoinComma(unique_sorted_citations) \o SUP_CLOSE

\* \d+(,\d+)* from position i: the position after it, i when no digit
\* stands at i
RECURSIVE SkipIntList(_, _)
SkipIntList(t, i) ==
    LET e == SkipDigits(t, i)
    IN  IF e = i THEN i
        ELSE IF At(t, e, ",") /\ SkipDigits(t, e + 1) > e + 1
             THEN SkipIntList(t, e + 1)
             ELSE e

\* the position after a match of <sup>\d+(,\d+)*</sup> at i, 0 when none
ListSpanEnd(t, i) ==
    LET d == i + Len(SUP_OPEN)
        e == SkipIntList(t, d)
    IN  IF StartsWith(t, i, SUP_OPEN) /\ e > d /\ StartsWith(t, e, SUP_CLOSE)
        THEN e + Len(SUP_CLOSE)
        ELSE 0

\* the repeated group with spans that may hold a list
ListSepSpanEnd(t, i) ==
    LET a == SkipSpace(t, i)
        b == IF At(t, a, ",") THEN a + 1 ELSE a
    IN  ListSpanEnd(t, SkipSpace(t, b))

RECURSIVE ExtendListRun(_, _)
ExtendListRun(t, cur) ==
    IF ListSepSpanEnd(t, cur) = 0 THEN cur
    ELSE ExtendListRun(t, ListSepSpanEnd(t, cur))

\* consecutive_pattern with spans that may hold a list
ListRunEnd(t, i) ==
    LET first == ListSpanEnd(t, i)
    IN  IF first = 0 THEN 0
        ELSE IF ExtendListRun(t, first) = first THEN 0
             ELSE ExtendListRun(t, first)

\* re.findall(r"\d+", s), from position i on
RECURSIVE FindAllInts(_, _)
FindAllInts(s, i) ==
    IF i > Len(s) THEN <<>>
    ELSE IF IsDigit(s[i])
         THEN <<SubSeq(s, i, SkipDigits(s, i) - 1)>> \o FindAllInts(s, SkipDigits(s, i))
         ELSE FindAllInts(s, i + 1)

\* the second pass with spans that may hold a list: every integer of every
\* span of the run is extracted
RECURSIVE SubRuns_Lists(_, _)
SubRuns_Lists(t, i) ==
    IF i > Len(t) THEN <<>>
    ELSE IF ListRunEnd(t, i) # 0
         THEN SUP_OPEN
              \o JoinComma(Sorted(IntSet(FindAllInts(SubSeq(t, i, ListRunEnd(t, i) - 1), 1))))
              \o SUP_CLOSE \o SubRuns_Lists(t, ListRunEnd(t, i))
         ELSE <<t[i]>> \o SubRuns_Lists(t, i + 1)

\* re.sub(consecutive_pattern, consolidate_and_sort_citations, t), from i on
RECURSIVE SubRuns(_, _)
SubRuns(t, i) ==
    IF i > Len(t) THEN <<>>
    ELSE IF RunEnd(t, i) # 0
         THEN consolidate_and_sort_citations(SubSeq(t, i, RunEnd(t, i) - 1))
              \o SubRuns(t, RunEnd(t, i))
         ELSE <<t[i]>> \o SubRuns(t, i + 1)

\* sorted(set(int(num) for num in citation_numbers)) raises ValueError in
\* some call of consolidate_and_sort_citations made by
\* re.sub(consecutive_pattern, consolidate_and_sort_citations, t), from i on
RECURSIVE SubRunsRaises(_, _)
SubRunsRaises(t, i) ==
    IF i > Len(t) THEN FALSE
    ELSE IF RunEnd(t, i) # 0
         THEN LET citation_numbers == FindNumbers(SubSeq(t, i, RunEnd(t, i) - 1), 1)
              IN  \/ \E k \in 1..Len(citation_numbers) : IntRaises(citation_numbers[k])
                  \/ SubRunsRaises(t, RunEnd(t, i))
         ELSE SubRunsRaises(t, i + 1)

\* the value convert_citations_to_superscript returns for the text t
convert_citations_to_superscript(t) == SubRuns(SubMarkers(t, 1), 1)

---------------------------------------------------------------------------
(* Input texts                                                             *)

\* a well-formed marker with group index g, citation index c, source tag tg
Marker(g, c, tg) == <<OPEN>> \o g \o <<":">> \o c \o <<DAGGER>> \o tg \o <<CLOSE>>

\* a superscript span written literally, with body b
Span(b) == SUP_OPEN \o b \o SUP_CLOSE

\* the citation indices of the markers of the input texts
CitationStrs == {<<"3">>, <<"5">>, <<"1", "2">>, <<"0", "5">>}

\* the marker of the input texts that carries citation index c: group
\* index and source tag differ from marker to marker
MarkerOf(c) ==
    IF c = <<"1", "2">> THEN Marker(<<"9", "9">>, c, <<"s", "_", "1">>)
    ELSE Marker(<<"1">>, c, <<"s">>)

MarkerPieces == {MarkerOf(c) : c \in CitationStrs}

\* literal spans of the input that hold one integer: the second pass
\* matches them like the spans the first pass wrote
NumSpanPieces == {Span(<<"7">>), Span(<<"2">>)}

\* a literal span of the input that holds a list: \d+ does not match it
ListSpanPieces == {Span(<<"4", ",", "1">>)}

SpanPieces == NumSpanPieces \cup ListSpanPieces

SepPieces == {<<" ">>, <<",">>, <<"x">>}

Pieces == MarkerPieces \cup SpanPieces \cup SepPieces

MaxParts == 4

\* the sequences of at most n elements of S
SeqsUpTo(S, n) == UNION {[1..k -> S] : k \in 0..n}

\* the text made of the pieces ps, in order
RECURSIVE Flatten(_)
Flatten(ps) == IF Len(ps) = 0 THEN <<>> ELSE ps[1] \o Flatten(Tail(ps))

---------------------------------------------------------------------------
(* The call of convert_citations_to_superscript                            *)

Init ==
    /\ parts \in SeqsUpTo(Pieces, MaxParts)
    /\ markdown_content = Flatten(parts)
    /\ converted_text = <<>>
    /\ final_text = <<>>
    /\ annotations = <<>>
    /\ citations = <<>>
    /\ formatted = <<>>
    /\ pc = "call"
    /\ SinksIdle
    /\ PollIdle
    /\ AppIdle

\* convert_citations_to_superscript(markdown_content) returns final_text,
\* or raises the ValueError of int() out of the second re.sub
Convert ==
    /\ pc = "call"
    /\ converted_text' = SubMarkers(markdown_content, 1)
    /\ IF SubRunsRaises(converted_text', 1)
       THEN /\ final_text' = final_text
            /\ pc' = "ValueError"
       ELSE /\ final_text' = SubRuns(converted_text', 1)
            /\ pc' = "done"
    /\ UNCHANGED <<parts, markdown_content, annotations, citations, formatted>>
    /\ UNCHANGED sink_vars
    /\ UNCHANGED poll_vars
    /\ UNCHANGED app_vars

Next == Convert

Spec == Init /\ [][Next]_vars

---------------------------------------------------------------------------
(* Vocabulary of the properties: the input read piece by piece             *)

IsMarker(p) == p \in MarkerPieces

\* the citation index a marker piece was written with
CitationOf(p) == CHOOSE c \in CitationStrs : p = MarkerOf(c)

\* a piece the second pass sees as a span: a marker or a one-integer span
IsUnit(p) == p \in MarkerPieces \cup NumSpanPieces

\* pieces that read as optional whitespace, at most one comma, whitespace
IsAbsorbedSep(ps) ==
    /\ \A k \in 1..Len(ps) : ps[k] \in {<<" ">>, <<",">>}
    /\ Cardinality({k \in 1..Len(ps) : ps[k] = <<",">>}) <= 1

\* unit j and the later unit k have only an absorbed separator between them
Joined(ps, j, k) ==
    /\ j < k
    /\ IsUnit(ps[j]) /\ IsUnit(ps[k])
    /\ IsAbsorbedSep(SubSeq(ps, j + 1, k - 1))

\* the strictly ascending enumeration of a finite set of naturals
Ascending(S) ==
    CHOOSE s \in [1..Cardinality(S) -> S] :
        \A i, j \in 1..Cardinality(S) : i < j => s[i] < s[j]

\* decimal numbers separated by single commas, no spaces
RECURSIVE CommaList(_)
CommaList(ns) ==
    IF Len(ns) = 0 THEN <<>>
    ELSE IF Len(ns) = 1 THEN ToStr(ns[1])
         ELSE CommaList(SubSeq(ns, 1, Len(ns) - 1)) \o <<",">> \o ToStr(ns[Len(ns)])

\* the citation indices of the markers among ps[a..b], as integers
IndexSet(ps, a, b) ==
    {ParseInt(CitationOf(ps[k])) : k \in {m \in a..b : IsMarker(ps[m])}}

\* the one span a run of markers ps[a..b] is to become
RunSpan(ps, a, b) == Span(CommaList(Ascending(IndexSet(ps, a, b))))

\* ps[a..b] is a run of two or more directly adjacent markers that nothing
\* on either side joins
IsMarkerRun(ps, a, b) ==
    /\ 1 <= a /\ a < b /\ b <= Len(ps)
    /\ \A k \in a..b : IsMarker(ps[k])
    /\ \A j \in 1..(a - 1) : ~Joined(ps, j, a)
    /\ \A k \in (b + 1)..Len(ps) : ~Joined(ps, b, k)

---------------------------------------------------------------------------
(* Properties of convert_citations_to_superscript                          *)

\* C1: every run of two or more directly adjacent markers is replaced by
\* exactly one span holding the run's citation indices as integers, sorted
\* ascending, duplicates removed, joined by commas without spaces (a single
\* integer when one distinct index remains); the text on either side of the
\* run is converted on its own.
C1_RunConsolidated ==
    pc = "done" =>
        \A a, b \in 1..Len(parts) :
            IsMarkerRun(parts, a, b) =>
                final_text =
                    convert_citations_to_superscript(Flatten(SubSeq(parts, 1, a - 1)))
                    \o RunSpan(parts, a, b)
                    \o convert_citations_to_superscript(Flatten(SubSeq(parts, b + 1, Len(parts))))

\* indices 5, 3, 12 in input order come out as <sup>3,5,12</sup>
C1_Witness ==
    /\ pc = "done"
    /\ parts = <<MarkerOf(<<"5">>), MarkerOf(<<"3">>),
                 MarkerOf(<<"1", "2">>)>>
    /\ IsMarkerRun(parts, 1, 3)
    /\ final_text = Span(<<"3", ",", "5", ",", "1", "2">>)

\* ps[a..b] is a sequence of markers, each separated from the next by
\* optional whitespace, at most one comma and optional whitespace, with at
\* least one such separator in it
IsSeparatedRun(ps, a, b) ==
    /\ 1 <= a /\ a < b /\ b <= Len(ps)
    /\ IsMarker(ps[a]) /\ IsMarker(ps[b])
    /\ \A k \in a..b : IsMarker(ps[k]) \/ ps[k] \in {<<" ">>, <<",">>}
    /\ \E k \in a..b : ~IsMarker(ps[k])
    /\ \A j, k \in a..b :
          (j < k /\ IsMarker(ps[j]) /\ IsMarker(ps[k])
             /\ \A m \in (j + 1)..(k - 1) : ~IsMarker(ps[m]))
          => IsAbsorbedSep(SubSeq(ps, j + 1, k - 1))

\* ps with the separators inside ps[a..b] taken out
WithoutSeparators(ps, a, b) ==
    SubSeq(ps, 1, a - 1) \o SelectSeq(SubSeq(ps, a, b), IsMarker)
        \o SubSeq(ps, b + 1, Len(ps))

\* C2: a sequence of markers whose consecutive markers are separated by
\* optional whitespace, at most one comma and optional whitespace gives the
\* output the same markers give when they stand directly adjacent, whatever
\* text surrounds the sequence.
C2_SeparatorsAbsorbed ==
    pc = "done" =>
        \A a, b \in 1..Len(parts) :
            IsSeparatedRun(parts, a, b) =>
                final_text =
                    convert_citations_to_superscript(Flatten(WithoutSeparators(parts, a, b)))

\* markers 5 and 3 separated by ", " come out as <sup>3,5</sup>
C2_Witness ==
    /\ pc = "done"
    /\ parts = <<MarkerOf(<<"5">>), <<",">>, <<" ">>,
                 MarkerOf(<<"3">>)>>
    /\ IsSeparatedRun(parts, 1, 4)
    /\ final_text = Span(<<"3", ",", "5">>)

\* the span the markers ps[a..b] are to become when nothing joins them to a
\* neighbour: a lone marker keeps its digit string, a run is consolidated
GroupSpan(ps, a, b) ==
    IF a = b THEN Span(CitationOf(ps[a])) ELSE RunSpan(ps, a, b)

\* ps is a group of markers ps[1..a], a separating text ps[a+1..b-1] that is
\* not whitespace with at most one comma (prose, two or more commas, a
\* literal list span), and a second group of markers ps[b..Len(ps)]
IsTwoGroups(ps, a, b) ==
    /\ 1 <= a /\ a + 1 < b /\ b <= Len(ps)
    /\ \A k \in 1..a : IsMarker(ps[k])
    /\ \A k \in b..Len(ps) : IsMarker(ps[k])
    /\ \A k \in (a + 1)..(b - 1) : ps[k] \in SepPieces \cup ListSpanPieces
    /\ ~IsAbsorbedSep(SubSeq(ps, a + 1, b - 1))

\* C3: two marker groups separated by anything other than whitespace with
\* at most one comma are consolidated independently, each into its own span,
\* and the separating text stands verbatim between the two spans.
C3_GroupsIndependent ==
    pc = "done" =>
        \A a, b \in 1..Len(parts) :
            IsTwoGroups(parts, a, b) =>
                final_text =
                    GroupSpan(parts, 1, a)
                    \o Flatten(SubSeq(parts, a + 1, b - 1))
                    \o GroupSpan(parts, b, Len(parts))

\* markers 12 and 3, prose, marker 5: <sup>3,12</sup>x<sup>5</sup>
C3_Witness ==
    /\ pc = "done"
    /\ parts = <<MarkerOf(<<"1", "2">>), MarkerOf(<<"3">>),
                 <<"x">>, MarkerOf(<<"5">>)>>
    /\ IsTwoGroups(parts, 2, 4)
    /\ final_text = Span(<<"3", ",", "1", "2">>) \o <<"x">> \o Span(<<"5">>)

\* the input holds a citation marker
HasMarker(ps) == \E k \in 1..Len(ps) : IsMarker(ps[k])

\* the text holds two spans the second pass consolidates: two markers or
\* one-integer spans with only an absorbed separator between them
HasJoinedSpans(ps) == \E j, k \in 1..Len(ps) : Joined(ps, j, k)

\* C4 as stated: every input without a citation marker is returned
\* unchanged, character for character.
C4_NoMarkerUnchanged ==
    (pc = "done" /\ ~HasMarker(parts)) => final_text = markdown_content

\* C4, amended: an input without a citation marker and without two
\* one-integer <sup> spans separated only by whitespace and at most one
\* comma is returned unchanged.
C4_NoMarkerNoRunUnchanged ==
    (pc = "done" /\ ~HasMarker(parts) /\ ~HasJoinedSpans(parts))
        => final_text = markdown_content

\* two literal spans with prose between them, and a literal list span
C4_Witness ==
    /\ pc = "done"
    /\ parts = <<Span(<<"7">>), <<"x">>, Span(<<"2">>), Span(<<"4", ",", "1">>)>>
    /\ ~HasMarker(parts) /\ ~HasJoinedSpans(parts)
    /\ final_text = markdown_content

\* the input holds exactly one citation marker, at piece k
IsOnlyMarker(ps, k) ==
    /\ k \in 1..Len(ps)
    /\ IsMarker(ps[k])
    /\ \A j \in 1..Len(ps) : IsMarker(ps[j]) => j = k

\* the input with its piece k replaced by <sup>c</sup>, c the marker's digits
MarkerReplaced(ps, k) ==
    Flatten(SubSeq(ps, 1, k - 1)) \o Span(CitationOf(ps[k]))
        \o Flatten(SubSeq(ps, k + 1, Len(ps)))

\* C5 as stated: an input with a single marker comes out with that marker
\* replaced in place by <sup>c</sup> and every other character unchanged.
C5_SingleMarkerReplaced ==
    pc = "done" =>
        \A k \in 1..Len(parts) :
            IsOnlyMarker(parts, k) => final_text = MarkerReplaced(parts, k)

\* C5, amended: the same, for an input in which neither the marker and a
\* one-integer <sup> span nor two such spans are separated only by
\* whitespace and at most one comma.
C5_SingleMarkerNoRunReplaced ==
    pc = "done" =>
        \A k \in 1..Len(parts) :
            (IsOnlyMarker(parts, k) /\ ~HasJoinedSpans(parts))
                => final_text = MarkerReplaced(parts, k)

\* a marker with index 05 between prose and a literal span: <sup>05</sup>
C5_Witness ==
    /\ pc = "done"
    /\ parts = <<<<"x">>, MarkerOf(<<"0", "5">>), <<"x">>, Span(<<"7">>)>>
    /\ IsOnlyMarker(parts, 2) /\ ~HasJoinedSpans(parts)
    /\ final_text = <<"x">> \o Span(<<"0", "5">>) \o <<"x">> \o Span(<<"7">>)

---------------------------------------------------------------------------
(* The superscript tokens of a text                                        *)

\* [^<>]* from position i: the first position that holds < or >
RECURSIVE SkipNonAngle(_, _)
SkipNonAngle(t, i) ==
    IF i <= Len(t) /\ t[i] \notin {"<", ">"} THEN SkipNonAngle(t, i + 1) ELSE i

\* the position after a match of <sup>[^<>]+</sup> at i, 0 when none
TokenEnd(t, i) ==
    LET d == i + Len(SUP_OPEN)
        e == SkipNonAngle(t, d)
    IN  IF StartsWith(t, i, SUP_OPEN) /\ e > d /\ StartsWith(t, e, SUP_CLOSE)
        THEN e + Len(SUP_CLOSE)
        ELSE 0

\* re.findall(r"<sup>[^<>]+</sup>", t) from position i on, each match
\* without its tags
RECURSIVE TokensOf(_, _)
TokensOf(t, i) ==
    IF i > Len(t) THEN <<>>
    ELSE IF TokenEnd(t, i) # 0
         THEN <<SubSeq(t, i + Len(SUP_OPEN), TokenEnd(t, i) - Len(SUP_CLOSE) - 1)>>
              \o TokensOf(t, TokenEnd(t, i))
         ELSE TokensOf(t, i + 1)

\* the comma-separated elements of a token body
RECURSIVE Elements(_)
Elements(body) ==
    IF \E k \in 1..Len(body) : body[k] = ","
    THEN LET k == CHOOSE k \in 1..Len(body) :
                     body[k] = "," /\ \A j \in 1..(k - 1) : body[j] # ","
         IN  <<SubSeq(body, 1, k - 1)>> \o Elements(SubSeq(body, k + 1, Len(body)))
    ELSE <<body>>

\* the token body is a comma-separated list of decimal integers
IsIntList(body) ==
    LET es == Elements(body)
    IN  \A k \in 1..Len(es) :
            /\ Len(es[k]) > 0
            /\ \A j \in 1..Len(es[k]) : IsDigit(es[k][j])

\* the integers of the list are unique and strictly ascending
IsStrictlyAscending(body) ==
    LET es == Elements(body)
    IN  \A j, k \in 1..Len(es) : j < k => ParseInt(es[j]) < ParseInt(es[k])

\* the text sub stands somewhere in the text t
Occurs(sub, t) == \E i \in 1..Len(t) : StartsWith(t, i, sub)

\* C7 as stated: in every output each superscript token holds integers that
\* are unique and strictly ascending.
C7_TokensAscending ==
    pc = "done" =>
        LET tokens == TokensOf(final_text, 1)
        IN  \A k \in 1..Len(tokens) :
                IsIntList(tokens[k]) => IsStrictlyAscending(tokens[k])

\* C7, amended: in every output each superscript token holds integers that
\* are unique and strictly ascending, unless the token is a span of the
\* input that the function copied unchanged.
C7_WrittenTokensAscending ==
    pc = "done" =>
        LET tokens == TokensOf(final_text, 1)
        IN  \A k \in 1..Len(tokens) :
                (/\ IsIntList(tokens[k])
                 /\ ~Occurs(Span(tokens[k]), markdown_content))
                    => IsStrictlyAscending(tokens[k])

\* a literal list span 4,1 is copied, the markers 12, 3, 3 become 3,12
C7_Witness ==
    /\ pc = "done"
    /\ parts = <<Span(<<"4", ",", "1">>), MarkerOf(<<"1", "2">>),
                 MarkerOf(<<"3">>), MarkerOf(<<"3">>)>>
    /\ TokensOf(final_text, 1) = << <<"4", ",", "1">>, <<"3", ",", "1", "2">> >>

\* the input is made of markers and separating text only
IsMarkersAndText(ps) == \A k \in 1..Len(ps) : ps[k] \in MarkerPieces \cup SepPieces

\* the last marker of the maximal run of joined markers that starts at i
RECURSIVE RunLast(_, _)
RunLast(ps, i) ==
    IF \E k \in (i + 1)..Len(ps) : Joined(ps, i, k)
    THEN RunLast(ps, CHOOSE k \in (i + 1)..Len(ps) : Joined(ps, i, k))
    ELSE i

\* the body of the token the maximal run ps[a..b] is to become
RunBody(ps, a, b) ==
    IF a = b THEN CitationOf(ps[a])
    ELSE CommaList(Ascending(IndexSet(ps, a, b)))

\* the token bodies of the maximal runs of markers of ps, from piece i on,
\* in input order
RECURSIVE RunBodies(_, _)
RunBodies(ps, i) ==
    IF i > Len(ps) THEN <<>>
    ELSE IF IsMarker(ps[i])
         THEN <<RunBody(ps, i, RunLast(ps, i))>> \o RunBodies(ps, RunLast(ps, i) + 1)
         ELSE RunBodies(ps, i + 1)

\* C8: the tokens of the output stand in the order of the maximal runs of
\* markers of the input: the i-th token holds exactly the citation indices
\* of the i-th run, so sorting never moves an index from one token to
\* another.
C8_TokenOrder ==
    (pc = "done" /\ IsMarkersAndText(parts))
        => TokensOf(final_text, 1) = RunBodies(parts, 1)

\* marker 12, prose, markers 5 and 3: the tokens are 12 and then 3,5
C8_Witness ==
    /\ pc = "done"
    /\ parts = <<MarkerOf(<<"1", "2">>), <<"x">>,
                 MarkerOf(<<"5">>), MarkerOf(<<"3">>)>>
    /\ TokensOf(final_text, 1) = << <<"1", "2">>, <<"3", ",", "5">> >>
    /\ RunBodies(parts, 1) = << <<"1", "2">>, <<"3", ",", "5">> >>

\* the elements of all the tokens of the text t
TokenElements(t) ==
    LET tokens == TokensOf(t, 1)
    IN  UNION {LET es == Elements(tokens[k]) IN {es[j] : j \in 1..Len(es)}
                 : k \in 1..Len(tokens)}

\* the marker at piece k is joined to no other marker or one-integer span
IsStandalone(ps, k) ==
    \A j \in 1..Len(ps) : ~Joined(ps, j, k) /\ ~Joined(ps, k, j)

\* C9 as stated: every citation index of the input appears in the output as
\* exactly the digit string it had in its marker, leading zeros included,
\* whether the marker stands alone or in a consolidated run.
C9_DigitsPreserved ==
    pc = "done" =>
        \A k \in 1..Len(parts) :
            IsMarker(parts[k])
                => CitationOf(parts[k]) \in TokenElements(final_text)

\* C9, amended: every citation index of the input appears in the output,
\* as exactly the digit string it had in its marker when the marker stands
\* alone, and as the decimal form of its integer value (the same digits,
\* without leading zeros) when the marker is part of a consolidated run.
C9_ValuePreserved ==
    pc = "done" =>
        \A k \in 1..Len(parts) :
            IsMarker(parts[k]) =>
                IF IsStandalone(parts, k)
                THEN CitationOf(parts[k]) \in TokenElements(final_text)
                ELSE ToStr(ParseInt(CitationOf(parts[k]))) \in TokenElements(final_text)

\* index 05 alone keeps its zero; 05 next to 12 comes out as 5,12
C9_Witness ==
    /\ pc = "done"
    /\ parts = <<MarkerOf(<<"0", "5">>), <<"x">>,
                 MarkerOf(<<"0", "5">>), MarkerOf(<<"1", "2">>)>>
    /\ IsStandalone(parts, 1) /\ ~IsStandalone(parts, 3)
    /\ final_text = Span(<<"0", "5">>) \o <<"x">> \o Span(<<"5", ",", "1", "2">>)

---------------------------------------------------------------------------
(* Texts with malformed markers                                            *)

\* a marker with one part missing: the opening bracket, the closing
\* bracket, the colon, the dagger, the group index, the citation index,
\* the source tag
MalformedPieces ==
    { <<"1", ":", "5", DAGGER, "s", CLOSE>>,
      <<OPEN, "1", ":", "5", DAGGER, "s">>,
      <<OPEN, "1", "5", DAGGER, "s", CLOSE>>,
      <<OPEN, "1", ":", "5", "s", CLOSE>>,
      <<OPEN, ":", "5", DAGGER, "s", CLOSE>>,
      <<OPEN, "1", ":", DAGGER, "s", CLOSE>>,
      <<OPEN, "1", ":", "5", DAGGER, CLOSE>> }

\* a citation index of one digit more than int() accepts
LongIndex == <<"1", NINES>>

\* the well-formed marker that carries it
LongMarker == Marker(<<"1">>, LongIndex, <<"s">>)

\* the well-formed markers and the prose that stand between them
MalformedContext ==
    { MarkerOf(<<"3">>), MarkerOf(<<"5">>), LongMarker, <<"x">> }

MaxMalformedParts == 3

InitMalformed ==
    /\ parts \in SeqsUpTo(MalformedPieces \cup MalformedContext, MaxMalformedParts)
    /\ markdown_content = Flatten(parts)
    /\ converted_text = <<>>
    /\ final_text = <<>>
    /\ annotations = <<>>
    /\ citations = <<>>
    /\ formatted = <<>>
    /\ pc = "call"
    /\ SinksIdle
    /\ PollIdle
    /\ AppIdle

SpecMalformed == InitMalformed /\ [][Next]_vars

\* the text ps is to become from piece i on: every maximal run of markers
\* one span, every other piece as it stands; the marker of the long index,
\* where it stands alone, the span of its digits
RECURSIVE MarkersOnlyConverted(_, _)
MarkersOnlyConverted(ps, i) ==
    IF i > Len(ps) THEN <<>>
    ELSE IF IsMarker(ps[i])
         THEN Span(RunBody(ps, i, RunLast(ps, i)))
              \o MarkersOnlyConverted(ps, RunLast(ps, i) + 1)
         ELSE IF ps[i] = LongMarker
              THEN Span(LongIndex) \o MarkersOnlyConverted(ps, i + 1)
              ELSE ps[i] \o MarkersOnlyConverted(ps, i + 1)

\* the call has returned a text in which every malformed marker stands as
\* it stood in the input and the well-formed markers are converted
MalformedLeftLiteral ==
    pc = "done" =>
        /\ final_text \in Seq(Chars)
        /\ final_text = MarkersOnlyConverted(parts, 1)

\* a marker without source tag between two well-formed markers
MalformedLeftLiteral_Reached ==
    /\ pc = "done"
    /\ parts = <<MarkerOf(<<"5">>),
                 <<OPEN, "1", ":", "5", DAGGER, CLOSE>>,
                 MarkerOf(<<"3">>)>>
    /\ final_text = Span(<<"5">>) \o <<OPEN, "1", ":", "5", DAGGER, CLOSE>> \o Span(<<"3">>)

\* the marker of the long index beside another marker: the run of two
\* spans is handed to consolidate_and_sort_citations, whose int() raises
LongIndexInRun ==
    /\ pc = "ValueError"
    /\ parts = <<LongMarker, MarkerOf(<<"5">>)>>
    /\ converted_text = Span(LongIndex) \o Span(<<"5">>)
    /\ final_text = <<>>

\* the marker of the long index alone: int() is not called
LongIndexAlone ==
    /\ pc = "done"
    /\ parts = <<LongMarker, <<"x">>, MarkerOf(<<"5">>)>>
    /\ final_text = Span(LongIndex) \o <<"x">> \o Span(<<"5">>)

\* C6: the function returns a text for every input and never raises; a
\* malformed or partial marker (opening or closing bracket, colon, dagger,
\* group index, citation index or source tag missing) matches nothing and
\* stands in the output as it stood in the input, while the well-formed
\* markers around it are converted.
C6_TotalMalformedLeftLiteral ==
    /\ pc # "ValueError"
    /\ MalformedLeftLiteral

---------------------------------------------------------------------------
(* extract_citations_from_annotations                                      *)

\* ann.url_citation.title: None, or a string that may be empty
NoTitle == [present |-> FALSE, text |-> ""]
Title(s) == [present |-> TRUE, text |-> s]

\* an annotation: ann.url_citation.url and ann.url_citation.title
Annotation(u, ti) == [url |-> u, title |-> ti]

\* the truth value Python gives a title: None and "" are false
IsTruthy(ti) == ti.present /\ ti.text # ""

\* the title without the fallback to the url
TitleOnly(ann) == ann.title.text

\* ann.url_citation.title or url
TitleOrUrl(ann) == IF IsTruthy(ann.title) THEN ann.title.text ELSE ann.url

\* the order-preserving filter of a dict: the entries whose key is not key
RECURSIVE Without(_, _)
Without(d, key) ==
    IF Len(d) = 0 THEN <<>>
    ELSE IF d[1].key = key THEN Without(Tail(d), key)
         ELSE <<d[1]>> \o Without(Tail(d), key)

\* the assignment as a delete followed by an insert: a key already in the
\* dict moves to the end
DictSet_MoveToEnd(d, key, value) ==
    Append(Without(d, key), [key |-> key, value |-> value])

\* the assignment as setdefault: a key already in the dict keeps its value
DictSet_KeepFirst(d, key, value) ==
    IF \E k \in 1..Len(d) : d[k].key = key
    THEN d
    ELSE Append(d, [key |-> key, value |-> value])

\* d[key] = value on a dict kept in insertion order: a key already in the
\* dict keeps its place and takes the new value, a new key goes last
DictSet(d, key, value) ==
    IF \E k \in 1..Len(d) : d[k].key = key
    THEN [k \in 1..Len(d) |->
             IF d[k].key = key THEN [key |-> key, value |-> value] ELSE d[k]]
    ELSE Append(d, [key |-> key, value |-> value])

\* the loop over annotations[i..], starting from the dict d
RECURSIVE ExtractLoop(_, _, _)
ExtractLoop(anns, i, d) ==
    IF i > Len(anns) THEN d
    ELSE ExtractLoop(anns, i + 1, DictSet(d, anns[i].url, TitleOrUrl(anns[i])))

\* the dict extract_citations_from_annotations returns
extract_citations_from_annotations(anns) == ExtractLoop(anns, 1, <<>>)

Urls == {"u1", "u2"}

Titles == {NoTitle, Title(""), Title("T1"), Title("T2")}

MaxAnnotations == 3

InitExtract ==
    /\ annotations \in SeqsUpTo({Annotation(u, ti) : u \in Urls, ti \in Titles},
                                MaxAnnotations)
    /\ citations = <<>>
    /\ formatted = <<>>
    /\ parts = <<>>
    /\ markdown_content = <<>>
    /\ converted_text = <<>>
    /\ final_text = <<>>
    /\ pc = "call"
    /\ SinksIdle
    /\ PollIdle
    /\ AppIdle

Extract ==
    /\ pc = "call"
    /\ citations' = extract_citations_from_annotations(annotations)
    /\ pc' = "done"
    /\ UNCHANGED <<parts, markdown_content, converted_text, final_text, annotations,
                 formatted>>
    /\ UNCHANGED sink_vars
    /\ UNCHANGED poll_vars
    /\ UNCHANGED app_vars

NextExtract == Extract

SpecExtract == InitExtract /\ [][NextExtract]_vars

\* the value the dict d holds for key
Lookup(d, key) == d[CHOOSE k \in 1..Len(d) : d[k].key = key].value

\* annotation k is the last one of its url
IsLastOfUrl(anns, k) ==
    \A j \in (k + 1)..Len(anns) : anns[j].url # anns[k].url

\* C10: the returned mapping maps the url of each annotation (the last one
\* of its url) to the annotation's title, and to the url itself when the
\* title is absent (None, or the empty string).
C10_TitleOrUrl ==
    pc = "done" =>
        \A k \in 1..Len(annotations) :
            IsLastOfUrl(annotations, k) =>
                /\ \E j \in 1..Len(citations) : citations[j].key = annotations[k].url
                /\ Lookup(citations, annotations[k].url) =
                       IF annotations[k].title.present /\ annotations[k].title.text # ""
                       THEN annotations[k].title.text
                       ELSE annotations[k].url

\* one annotation without title, one with: u1 maps to u1, u2 to T1
C10_Witness ==
    /\ pc = "done"
    /\ annotations = <<Annotation("u1", NoTitle), Annotation("u2", Title("T1"))>>
    /\ citations = <<[key |-> "u1", value |-> "u1"], [key |-> "u2", value |-> "T1"]>>


\* the position of the first annotation of url u
FirstIndex(anns, u) ==
    CHOOSE k \in 1..Len(anns) :
        /\ anns[k].url = u
        /\ \A j \in 1..(k - 1) : anns[j].url # u

\* C11: the returned mapping has exactly one entry per distinct url of the
\* annotation sequence, and its keys stand in the order in which each url
\* first appears in the sequence.
C11_KeysFirstSeen ==
    pc = "done" =>
        /\ {citations[k].key : k \in 1..Len(citations)} =
               {annotations[k].url : k \in 1..Len(annotations)}
        /\ \A j, k \in 1..Len(citations) :
               j < k =>
                   /\ citations[j].key # citations[k].key
                   /\ FirstIndex(annotations, citations[j].key) <
                          FirstIndex(annotations, citations[k].key)

\* u1, u2, then u1 again: u1 keeps the first place
C11_Witness ==
    /\ pc = "done"
    /\ Len(annotations) = 3
    /\ annotations[1].url = "u1"
    /\ annotations[2].url = "u2"
    /\ annotations[3].url = "u1"
    /\ Len(citations) = 2
    /\ citations[1].key = "u1"
    /\ citations[2].key = "u2"

\* the title Python resolves for an annotation, written out
Resolved(ann) ==
    IF ann.title = NoTitle \/ ann.title = Title("") THEN ann.url
    ELSE ann.title.text

\* C12: when a url occurs more than once with different titles, the mapping
\* holds the title of the last occurrence, an absent title at the last
\* occurrence resolving to the url.
C12_LastWriteWins ==
    pc = "done" =>
        \A j, k \in 1..Len(annotations) :
            ( /\ j < k
              /\ annotations[j].url = annotations[k].url
              /\ annotations[j].title # annotations[k].title
              /\ IsLastOfUrl(annotations, k) )
            => Lookup(citations, annotations[k].url) = Resolved(annotations[k])

\* u1 with title T1, then u1 without title: u1 maps to itself
C12_Witness ==
    /\ pc = "done"
    /\ annotations = <<Annotation("u1", Title("T1")), Annotation("u2", Title("T2")),
                       Annotation("u1", NoTitle)>>
    /\ citations = <<[key |-> "u1", value |-> "u1"], [key |-> "u2", value |-> "T2"]>>

---------------------------------------------------------------------------
(* format_citations_for_display                                            *)

\* the text returned for an empty dict
NO_CITATIONS ==
    <<"N", "o", " ", "c", "i", "t", "a", "t", "i", "o", "n", "s", " ",
      "f", "o", "u", "n", "d", ".">>

\* the entry numbered from 0, as enumerate numbers without a start value
FormatEntry_ZeroBased(i, url, title) ==
    ToStr(i - 1) \o <<".", " ", "[">> \o title \o <<"]", "(">> \o url \o <<")">>

\* f"{i}. [{title}]({url})"
FormatEntry(i, url, title) ==
    ToStr(i) \o <<".", " ", "[">> \o title \o <<"]", "(">> \o url \o <<")">>

\* the list formatted_citations: entry i of the dict, numbered from 1
formatted_citations(d) ==
    [i \in 1..Len(d) |-> FormatEntry(i, d[i].key, d[i].value)]

\* "\n".join(ls)
RECURSIVE JoinNewline(_)
JoinNewline(ls) ==
    IF Len(ls) = 0 THEN <<>>
    ELSE IF Len(ls) = 1 THEN ls[1]
         ELSE ls[1] \o <<"\n">> \o JoinNewline(Tail(ls))

\* the text format_citations_for_display returns for the dict d
format_citations_for_display(d) ==
    IF Len(d) = 0 THEN NO_CITATIONS
    ELSE JoinNewline(formatted_citations(d))

\* urls and titles as texts; a title may be empty
UrlTexts == {<<"u", "1">>, <<"u", "2">>, <<"u", "3">>}

TitleTexts == {<<>>, <<"x">>, <<"s", " ", "p">>}

MaxEntries == 3

\* the dicts of at most n entries: sequences of entries with distinct keys
DictsUpTo(n) ==
    {d \in SeqsUpTo([key : UrlTexts, value : TitleTexts], n) :
        \A j, k \in 1..Len(d) : j # k => d[j].key # d[k].key}

InitFormat ==
    /\ citations \in DictsUpTo(MaxEntries)
    /\ formatted = <<>>
    /\ annotations = <<>>
    /\ parts = <<>>
    /\ markdown_content = <<>>
    /\ converted_text = <<>>
    /\ final_text = <<>>
    /\ pc = "call"
    /\ SinksIdle
    /\ PollIdle
    /\ AppIdle

Format ==
    /\ pc = "call"
    /\ formatted' = format_citations_for_display(citations)
    /\ pc' = "done"
    /\ UNCHANGED <<parts, markdown_content, converted_text, final_text,
                   annotations, citations>>
    /\ UNCHANGED sink_vars
    /\ UNCHANGED poll_vars
    /\ UNCHANGED app_vars

NextFormat == Format

SpecFormat == InitFormat /\ [][NextFormat]_vars

\* the lines of a text: its pieces between newline characters
RECURSIVE SplitLines(_, _)
SplitLines(t, cur) ==
    IF Len(t) = 0 THEN <<cur>>
    ELSE IF t[1] = "\n" THEN <<cur>> \o SplitLines(Tail(t), <<>>)
         ELSE SplitLines(Tail(t), Append(cur, t[1]))

\* C13: format_citations_for_display returns "No citations found." for an
\* empty mapping, and otherwise one line per entry, "i. [title](url)", the
\* lines joined by newlines and i running 1..n in the mapping's order.
C13_NumberedLines ==
    pc = "done" =>
        IF citations = <<>>
        THEN formatted = NO_CITATIONS
        ELSE LET ls == SplitLines(formatted, <<>>)
             IN  /\ Len(ls) = Len(citations)
                 /\ \A i \in 1..Len(ls) :
                        ls[i] = <<DigitChar(i), ".", " ", "[">> \o citations[i].value
                                    \o <<"]", "(">> \o citations[i].key \o <<")">>

\* three entries, the second with an empty title
C13_Witness ==
    /\ pc = "done"
    /\ citations = <<[key |-> <<"u", "2">>, value |-> <<"x">>],
                     [key |-> <<"u", "1">>, value |-> <<>>],
                     [key |-> <<"u", "3">>, value |-> <<"s", " ", "p">>]>>
    /\ formatted = <<"1", ".", " ", "[", "x", "]", "(", "u", "2", ")", "\n",
                     "2", ".", " ", "[", "]", "(", "u", "1", ")", "\n",
                     "3", ".", " ", "[", "s", " ", "p", "]", "(", "u", "3", ")">>

---------------------------------------------------------------------------
(* utils/logging_sinks.py: UISink, FileSink, MultiSink                     *)

\* the sink objects: two UISinks constructed with the same list, one FileSink
UISinkIds == {"ui1", "ui2"}
FileSinkId == "file"
SinkIds == UISinkIds \cup {FileSinkId}

\* the lines written: texts, with or without a newline at the end
LineTexts == {<<"a">>, <<"b", "\n">>}

\* the destinations and the call log, passed through the loops
Env == [ui_buffer |-> ui_buffer, fs |-> fs, calls |-> calls]

\* the call sink.write(line), logged
Called(e, s, line) == Append(e.calls, [sink |-> s, line |-> line])

\* write as self.buffer.insert(0, line)
UISink_write_Prepend(e, s, line) ==
    [e EXCEPT !.ui_buffer = <<line>> \o @, !.calls = Called(e, s, line)]

\* UISink.write: self.buffer.append(line)
UISink_write(e, s, line) ==
    [e EXCEPT !.ui_buffer = Append(@, line), !.calls = Called(e, s, line)]

\* write with the file opened in mode "w"
FileSink_write_Truncate(e, s, line) ==
    [e EXCEPT !.fs = [dir |-> @.dir, exists |-> TRUE, content |-> line],
              !.calls = Called(e, s, line)]

\* FileSink.write: open(self.path, "a") creates the file when it is
\* missing, f.write(line) puts the line after the content
FileSink_write(e, s, line) ==
    [e EXCEPT !.fs = [dir |-> @.dir, exists |-> TRUE, content |-> @.content \o line],
              !.calls = Called(e, s, line)]

\* sink.write(line), by the class of the sink
Sink_write(e, s, line) ==
    IF s \in UISinkIds THEN UISink_write(e, s, line)
    ELSE FileSink_write(e, s, line)

\* for sink in ss: sink.write(line)
RECURSIVE WriteLoop(_, _, _)
WriteLoop(e, ss, line) ==
    IF Len(ss) = 0 THEN e
    ELSE WriteLoop(Sink_write(e, ss[1], line), Tail(ss), line)

\* the loop left after its first sink
MultiSink_write_FirstOnly(e, ss, line) ==
    IF Len(ss) = 0 THEN e ELSE Sink_write(e, ss[1], line)

\* MultiSink.write
MultiSink_write(e, ss, line) == WriteLoop(e, ss, line)

\* sink.flush() of every class: pass
Sink_flush(e, s) == e

\* MultiSink.flush: for sink in ss: sink.flush()
RECURSIVE MultiSink_flush(_, _)
MultiSink_flush(e, ss) ==
    IF Len(ss) = 0 THEN e
    ELSE MultiSink_flush(Sink_flush(e, ss[1]), Tail(ss))

\* MultiSink.add_sink: self.sinks.append(sink)
MultiSink_add_sink(ss, s) == Append(ss, s)

\* sink in ss
Contains(ss, s) == \E k \in 1..Len(ss) : ss[k] = s

\* ss.remove(s) for a sink the list holds: the first occurrence goes
RECURSIVE ListRemove(_, _)
ListRemove(ss, s) ==
    IF ss[1] = s THEN Tail(ss) ELSE <<ss[1]>> \o ListRemove(Tail(ss), s)

\* ss without any occurrence of s
RECURSIVE ListRemoveAll(_, _)
ListRemoveAll(ss, s) ==
    IF Len(ss) = 0 THEN <<>>
    ELSE IF ss[1] = s THEN ListRemoveAll(Tail(ss), s)
         ELSE <<ss[1]>> \o ListRemoveAll(Tail(ss), s)

\* remove_sink taking every occurrence of the sink out
MultiSink_remove_sink_All(ss, s) == ListRemoveAll(ss, s)

\* MultiSink.remove_sink: if sink in self.sinks: self.sinks.remove(sink)
MultiSink_remove_sink(ss, s) ==
    IF Contains(ss, s) THEN ListRemove(ss, s) ELSE ss

\* remove_sink without the membership test: list.remove raises ValueError
\* for a sink the list does not hold
RemoveRaises_Unguarded(ss, s) == ~Contains(ss, s)

\* whether remove_sink raises: the membership test keeps list.remove from
\* being called for a sink the list does not hold
RemoveRaises(ss, s) == FALSE

\* os.makedirs(dirname, exist_ok=True): the directory exists afterwards,
\* the file is not touched
FileSink_init(f) == [f EXCEPT !.dir = TRUE]

MaxSinks == 3

MaxCalls == 3

\* the sinks that have been constructed
Constructed(made) == IF made THEN SinkIds ELSE UISinkIds

\* a file that exists in an existing directory, with one line in it
OldFile == [dir |-> TRUE, exists |-> TRUE, content |-> <<"o", "\n">>]

\* a directory without the file
NoFileInDir == [dir |-> TRUE, exists |-> FALSE, content |-> <<>>]

\* the operation called, its arguments and whether it raised
Op(name, s, line, raised) ==
    [n |-> op.n + 1, name |-> name, sink |-> s, line |-> line, raised |-> raised]

\* pc of the citation utilities while the sinks run
CitationsIdle ==
    /\ parts = <<>>
    /\ markdown_content = <<>>
    /\ converted_text = <<>>
    /\ final_text = <<>>
    /\ annotations = <<>>
    /\ citations = <<>>
    /\ formatted = <<>>
    /\ pc = "idle"

\* MultiSink(sinks) constructed from a list of constructed sinks; the
\* buffer of the UISinks and the file may hold earlier content
InitSinks ==
    /\ file_sink \in BOOLEAN
    /\ fs \in (IF file_sink THEN {NoFileInDir, OldFile} ELSE {NoFile, OldFile})
    /\ ui_buffer \in {<<>>, <<(<<"o">>)>>}
    /\ sinks \in SeqsUpTo(Constructed(file_sink), MaxSinks - 1)
    /\ calls = <<>>
    /\ op = NoOp
    /\ initial = [sinks |-> sinks, ui_buffer |-> ui_buffer, fs |-> fs]
    /\ CitationsIdle
    /\ PollIdle
    /\ AppIdle

\* FileSink(path)
ConstructFileSink ==
    /\ op.n < MaxCalls
    /\ ~file_sink
    /\ file_sink' = TRUE
    /\ fs' = FileSink_init(fs)
    /\ op' = Op("FileSink", FileSinkId, <<>>, FALSE)
    /\ UNCHANGED <<sinks, ui_buffer, calls, initial>>
    /\ UNCHANGED citation_vars
    /\ UNCHANGED poll_vars
    /\ UNCHANGED app_vars

\* multi_sink.write(line)
MultiWrite ==
    \E line \in LineTexts :
        /\ op.n < MaxCalls
        /\ LET e == MultiSink_write(Env, sinks, line)
           IN  /\ ui_buffer' = e.ui_buffer
               /\ fs' = e.fs
               /\ calls' = e.calls
        /\ op' = Op("write", "none", line, FALSE)
        /\ UNCHANGED <<sinks, file_sink, initial>>
        /\ UNCHANGED citation_vars
        /\ UNCHANGED poll_vars
        /\ UNCHANGED app_vars
    /\ UNCHANGED poll_vars
    /\ UNCHANGED app_vars

\* multi_sink.flush()
MultiFlush ==
    /\ op.n < MaxCalls
    /\ LET e == MultiSink_flush(Env, sinks)
       IN  /\ ui_buffer' = e.ui_buffer
           /\ fs' = e.fs
           /\ calls' = e.calls
    /\ op' = Op("flush", "none", <<>>, FALSE)
    /\ UNCHANGED <<sinks, file_sink, initial>>
    /\ UNCHANGED citation_vars
    /\ UNCHANGED poll_vars
    /\ UNCHANGED app_vars

\* multi_sink.add_sink(s)
AddSink ==
    \E s \in Constructed(file_sink) :
        /\ op.n < MaxCalls
        /\ Len(sinks) < MaxSinks
        /\ sinks' = MultiSink_add_sink(sinks, s)
        /\ op' = Op("add_sink", s, <<>>, FALSE)
        /\ UNCHANGED <<ui_buffer, fs, file_sink, calls, initial>>
        /\ UNCHANGED citation_vars
        /\ UNCHANGED poll_vars
        /\ UNCHANGED app_vars
    /\ UNCHANGED poll_vars
    /\ UNCHANGED app_vars

\* multi_sink.remove_sink(s)
RemoveSink ==
    \E s \in Constructed(file_sink) :
        /\ op.n < MaxCalls
        /\ IF RemoveRaises(sinks, s)
           THEN /\ sinks' = sinks
                /\ op' = Op("remove_sink", s, <<>>, TRUE)
           ELSE /\ sinks' = MultiSink_remove_sink(sinks, s)
                /\ op' = Op("remove_sink", s, <<>>, FALSE)
        /\ UNCHANGED <<ui_buffer, fs, file_sink, calls, initial>>
        /\ UNCHANGED citation_vars
        /\ UNCHANGED poll_vars
        /\ UNCHANGED app_vars
    /\ UNCHANGED poll_vars
    /\ UNCHANGED app_vars

NextSinks ==
    \/ ConstructFileSink
    \/ MultiWrite
    \/ MultiFlush
    \/ AddSink
    \/ RemoveSink

SpecSinks == InitSinks /\ [][NextSinks]_vars

---------------------------------------------------------------------------
(* Properties of the sinks                                                 *)

\* the lines sink s was called with, in call order
RECURSIVE Received(_, _)
Received(cs, s) ==
    IF Len(cs) = 0 THEN <<>>
    ELSE IF cs[1].sink = s THEN <<cs[1].line>> \o Received(Tail(cs), s)
         ELSE Received(Tail(cs), s)

\* how many times sink s stands in the list ss
Occurrences(ss, s) == Cardinality({k \in 1..Len(ss) : ss[k] = s})

\* the step is a call of the operation name
IsCall(name) == op'.n = op.n + 1 /\ op'.name = name

\* C14: MultiSink.write(line) delivers the same line to every sink in the
\* collection, once per place and in collection order, whatever the size of
\* the collection (none for an empty one); write and flush raise nothing and
\* flush delivers nothing.
C14_WriteReachesAll ==
    [][ /\ IsCall("write") =>
              /\ ~op'.raised
              /\ calls' = calls \o [k \in 1..Len(sinks) |->
                                       [sink |-> sinks[k], line |-> op'.line]]
        /\ IsCall("flush") =>
              /\ ~op'.raised
              /\ calls' = calls /\ ui_buffer' = ui_buffer /\ fs' = fs
      ]_vars

\* a line written to three sinks, in the order of the collection
C14_Witness ==
    /\ op.name = "write"
    /\ sinks = <<"ui2", "file", "ui1">>
    /\ calls = [k \in 1..3 |-> [sink |-> sinks[k], line |-> <<"a">>]]

\* a write to an empty collection
C14_EmptyWitness ==
    /\ op.name = "write"
    /\ sinks = <<>>
    /\ calls = <<>>

\* C15 as stated, for a collection constructed from distinct sinks: a write
\* delivers its line once to every sink of the collection and to no other,
\* and the write that follows remove_sink(s) delivers nothing to s.
C15_ExactlyWhileConfigured ==
    [][(IsCall("write") /\ \A s \in SinkIds : Occurrences(initial.sinks, s) <= 1) =>
          /\ \A s \in SinkIds :
                 Received(calls', s) =
                     IF Contains(sinks, s) THEN Append(Received(calls, s), op'.line)
                     ELSE Received(calls, s)
          /\ op.name = "remove_sink" =>
                 Received(calls', op.sink) = Received(calls, op.sink)
      ]_vars

\* C15: a write delivers its line to each sink once for every occurrence of
\* the sink in the collection; add_sink(s) adds one occurrence of s at the
\* end and delivers nothing, remove_sink(s) takes the first occurrence of s
\* out (if there is one) and delivers nothing; the occurrences of the other
\* sinks, and so the lines delivered to them, are not affected.
C15_DeliveredPerOccurrence ==
    [][ /\ IsCall("write") =>
              \A s \in SinkIds :
                  Received(calls', s) =
                      Received(calls, s) \o [k \in 1..Occurrences(sinks, s) |-> op'.line]
        /\ IsCall("add_sink") =>
              /\ calls' = calls
              /\ \A s \in SinkIds :
                     Occurrences(sinks', s) =
                         Occurrences(sinks, s) + (IF s = op'.sink THEN 1 ELSE 0)
        /\ IsCall("remove_sink") =>
              /\ calls' = calls
              /\ \A s \in SinkIds :
                     Occurrences(sinks', s) =
                         IF s = op'.sink /\ Contains(sinks, s)
                         THEN Occurrences(sinks, s) - 1
                         ELSE Occurrences(sinks, s)
      ]_vars

\* ui1 added to a collection that holds it, and the line written next
\* delivered to ui1 twice
C15_Witness ==
    /\ initial.sinks = <<"ui1">>
    /\ op.name = "write"
    /\ op.n = 2
    /\ sinks = <<"ui1", "ui1">>
    /\ calls = <<[sink |-> "ui1", line |-> <<"a">>], [sink |-> "ui1", line |-> <<"a">>]>>

\* C16: remove_sink(s) for a sink that is not in the collection raises
\* nothing and leaves the collection as it was, and nothing is delivered.
C16_RemoveAbsent ==
    [][(IsCall("remove_sink") /\ ~Contains(sinks, op'.sink)) =>
          /\ ~op'.raised
          /\ sinks' = sinks
          /\ calls' = calls /\ ui_buffer' = ui_buffer /\ fs' = fs
      ]_vars

\* remove_sink(ui2) as the first call on a collection of two sinks, which
\* is still of two sinks afterwards
C16_Witness ==
    /\ initial.sinks = <<"ui1", "file">>
    /\ op.name = "remove_sink"
    /\ op.n = 1
    /\ op.sink = "ui2"
    /\ sinks = <<"ui1", "file">>

\* the lines of the calls to the sinks of the set S, in call order
RECURSIVE LinesTo(_, _)
LinesTo(cs, S) ==
    IF Len(cs) = 0 THEN <<>>
    ELSE IF cs[1].sink \in S THEN <<cs[1].line>> \o LinesTo(Tail(cs), S)
         ELSE LinesTo(Tail(cs), S)

\* C17: the buffer shared by the UISinks is its initial content followed by
\* every line written to any of them, in call order.
C17_BufferAppended ==
    ui_buffer = initial.ui_buffer \o LinesTo(calls, UISinkIds)

\* two UISinks on one buffer that held a line, each written to once
C17_Witness ==
    /\ initial.ui_buffer = <<(<<"o">>)>>
    /\ calls = <<[sink |-> "ui2", line |-> <<"b", "\n">>],
                 [sink |-> "ui1", line |-> <<"b", "\n">>]>>
    /\ ui_buffer = <<(<<"o">>), <<"b", "\n">>, <<"b", "\n">>>>

\* the texts ls concatenated
RECURSIVE Concat(_)
Concat(ls) == IF Len(ls) = 0 THEN <<>> ELSE ls[1] \o Concat(Tail(ls))

\* C18: the content of the file is the content it had at the start followed
\* by the lines written to the FileSink, concatenated in call order, and
\* the file exists when it existed at the start or a line was written;
\* constructing the FileSink and flushing change neither.
C18_FileAppended ==
    /\ fs.content = initial.fs.content \o Concat(LinesTo(calls, {FileSinkId}))
    /\ fs.exists = (initial.fs.exists \/ LinesTo(calls, {FileSinkId}) # <<>>)

\* the FileSink constructed on a file with content, then flushed, then
\* written to twice by one write of a collection holding it twice
C18_Witness ==
    /\ initial.fs = OldFile
    /\ ~Contains(sinks, "ui1") /\ ~Contains(sinks, "ui2")
    /\ Occurrences(sinks, FileSinkId) = 2
    /\ op.name = "write"
    /\ fs.content = <<"o", "\n", "a", "a">>

---------------------------------------------------------------------------
(* services/agents_service.py: AgentsService.poll_run                      *)

\* a text of a message: a sequence of pieces; the prefix "cot_summary:" is
\* one piece
COT == "cot_summary:"

\* a message of the thread: its id, its text_messages and its
\* url_citation_annotations
Message(id, texts, anns) == [id |-> id, text_messages |-> texts, url_citation_annotations |-> anns]

\* what messages.get_last_message_by_role may return: no message, two
\* reasoning summaries that share a url, and a message without summary
Responses ==
    {NoMessage,
     Message("m1", <<(<<COT, "r1">>)>>,
             <<Annotation("u1", Title("T1")), Annotation("u2", NoTitle)>>),
     Message("m2", <<(<<"p">>), <<COT, "r2">>, <<COT, "r3", COT>>>>,
             <<Annotation("u2", Title("T2")), Annotation("u1", Title(""))>>),
     Message("m3", <<(<<"p", COT>>)>>, <<Annotation("u1", Title("T1"))>>)}

\* the statuses runs.get may report
RunStatuses == {"queued", "in_progress", "completed", "failed", "cancelled"}

\* run.last_error of a failed run
LAST_ERROR == "err"

\* t.text.value.startswith("cot_summary:")
IsCotSummary(text) == Len(text) > 0 /\ text[1] = COT

\* t.text.value.replace("cot_summary:", "Reasoning:")
ReplaceCot(text) ==
    [k \in 1..Len(text) |-> IF text[k] = COT THEN "Reasoning:" ELSE text[k]]

\* the texts ts, each with the prefix replaced
ReplaceAll(ts) == [k \in 1..Len(ts) |-> ReplaceCot(ts[k])]

\* the three pictographs of the progress lines, each one piece
ROBOT == "U+1F916"
BOOK == "U+1F4D6"
CROSS == "U+274C"

\* f"\n{ROBOT} Agent response (iteration {iteration}):\n"
AgentResponseLine(iteration) ==
    <<"\n", ROBOT, " Agent response (iteration ">> \o ToStr(iteration) \o <<"):", "\n">>

\* f"{BOOK} Citation: [{title}]({url})\n"
CitationLine(title, url) == <<BOOK, " Citation: [", title, "](", url, ")", "\n">>

\* f"\n{CROSS} Run failed: {run.last_error}\n"
RunFailedLine == <<"\n", CROSS, " Run failed: ", LAST_ERROR, "\n">>

\* the loop without the test url not in seen_citations
RECURSIVE CitationLoop_NoSeenTest(_, _, _, _)
CitationLoop_NoSeenTest(anns, i, st, cb) ==
    IF i > Len(anns) THEN st
    ELSE LET url == anns[i].url
             title == TitleOrUrl(anns[i])
         IN  CitationLoop_NoSeenTest(anns, i + 1,
                 [seen |-> st.seen \cup {url},
                  progress |-> Append(st.progress, CitationLine(title, url)),
                  calls |-> IF cb # None
                            THEN Append(st.calls, [title |-> title, url |-> url])
                            ELSE st.calls],
                 cb)

\* the loop over response.url_citation_annotations from annotation i on;
\* st holds seen_citations, the lines written and the callback calls
RECURSIVE CitationLoop(_, _, _, _)
CitationLoop(anns, i, st, cb) ==
    IF i > Len(anns) THEN st
    ELSE LET url == anns[i].url
             title == TitleOrUrl(anns[i])
         IN  IF url \notin st.seen
             THEN CitationLoop(anns, i + 1,
                      [seen |-> st.seen \cup {url},
                       progress |-> Append(st.progress, CitationLine(title, url)),
                       calls |-> IF cb # None
                                 THEN Append(st.calls, [title |-> title, url |-> url])
                                 ELSE st.calls],
                      cb)
             ELSE CitationLoop(anns, i + 1, st, cb)

\* _fetch_and_process_new_response: the id it returns and what it did to
\* seen_citations, the sinks and the callback
fetch_and_process_new_response(response, last_id, st, cb, iteration) ==
    IF response = NoMessage THEN [id |-> last_id, st |-> st]
    ELSE IF response.id = last_id THEN [id |-> last_id, st |-> st]
    ELSE LET cot_messages == SelectSeq(response.text_messages, IsCotSummary)
         IN  IF cot_messages = <<>> THEN [id |-> last_id, st |-> st]
             ELSE LET agent_text == JoinNewline(ReplaceAll(cot_messages))
                      written == st.progress \o
                                 <<AgentResponseLine(iteration), agent_text, <<"\n">>>>
                  IN  [id |-> response.id,
                       st |-> CitationLoop(response.url_citation_annotations, 1,
                                  [st EXCEPT !.progress = written], cb)]

\* the test as run.status != "in_progress"
IsTerminal_QueuedEnds(status) == status # "in_progress"

\* the test as run.status in ("completed", "failed")
IsTerminal_CompletedOrFailed(status) == status \in {"completed", "failed"}

\* run.status not in ("queued", "in_progress")
IsTerminal(status) == status \notin {"queued", "in_progress"}

\* the failure line written for every status that ends the loop
FailureLines_AnyStatus(status) == <<RunFailedLine>>

\* if run.status == "failed": sinks.write(...): the lines written when the
\* loop ends with the status
FailureLines(status) == IF status = "failed" THEN <<RunFailedLine>> ELSE <<>>

MaxPolls == 3

\* the service constructed, with or without clients; the UI has set
\* research_status to "running" before it calls run_research
InitPoll ==
    /\ agents_client \in BOOLEAN
    /\ on_citation \in {None, "handle_citation_callback"}
    /\ poll_pc = "idle"
    /\ poll_at = None
    /\ iteration_count = 0
    /\ last_message_id = None
    /\ seen_citations = {}
    /\ run = None
    /\ progress = <<>>
    /\ on_citation_calls = <<>>
    /\ result = NoResult
    /\ research_status = "running"
    /\ remote_status \in RunStatuses
    /\ remote_message \in Responses
    /\ CitationsIdle
    /\ SinksIdle
    /\ AppIdle

\* the names of the remote calls of the service
RUNS_GET == "runs.get"
GET_LAST_MESSAGE == "messages.get_last_message_by_role"

\* the sinks run_research builds: UISink(st.session_state.ui_buffer), and
\* FileSink("research_progress.txt") when save_files is set; no UISink of
\* the session when poll_run is called by another caller
SinksOfRun ==
    IF app_pc # "poll_run" THEN <<>>
    ELSE IF config.save_files THEN <<"ui1", FileSinkId>> ELSE <<"ui1">>

\* sinks.write(line) for the lines from line i on
RECURSIVE WriteLines(_, _, _, _)
WriteLines(e, ss, lines, i) ==
    IF i > Len(lines) THEN e
    ELSE WriteLines(MultiSink_write(e, ss, lines[i]), ss, lines, i + 1)

\* the callback with its two arguments taken in the other order
handle_citation_callback_Swapped(d, title, url) == DictSet(d, title, url)

\* handle_citation_callback: st.session_state.citations[url] = title
handle_citation_callback(d, title, url) == DictSet(d, url, title)

\* the callback applied to the calls from call i on
RECURSIVE CallbackLoop(_, _, _)
CallbackLoop(d, cs, i) ==
    IF i > Len(cs) THEN d
    ELSE CallbackLoop(handle_citation_callback(d, cs[i].title, cs[i].url), cs, i + 1)

\* the session and the files after poll_run wrote the lines written and
\* made the callback calls made
Delivered(written, made) ==
    LET e == WriteLines([ui_buffer |-> session.ui_buffer, fs |-> files.progress,
                         calls |-> <<>>],
                        SinksOfRun, written, 1)
    IN  [session |-> [session EXCEPT
                         !.ui_buffer = e.ui_buffer,
                         !.citations = IF on_citation = "handle_citation_callback"
                                       THEN CallbackLoop(@, made, 1)
                                       ELSE @],
         files |-> [files EXCEPT !.progress = e.fs]]

\* the part of the sequence new that was added to old
Added(old, new) == SubSeq(new, Len(old) + 1, Len(new))

\* the caller of poll_run: run_research at its poll_run call, or a caller
\* of the service on its own
PollCaller ==
    /\ app_pc \in {"none", "service", "poll_run"}
    /\ service_op.outcome # "entered"

\* poll_run called: the guard on agents_client, then the locals
PollRunCall ==
    /\ poll_pc = "idle"
    /\ PollCaller
    /\ poll_pc' = IF agents_client THEN "loop" ELSE "ValueError"
    /\ poll_at' = IF agents_client THEN "time.sleep" ELSE poll_at
    /\ service_op' = [service_op EXCEPT
                         !.n = @ + 1, !.name = "poll_run",
                         !.outcome = IF agents_client THEN "entered" ELSE "ValueError"]
    /\ UNCHANGED <<agents_client, on_citation, iteration_count, last_message_id,
                   seen_citations, run, progress, on_citation_calls, result,
                   research_status, remote_status, remote_message>>
    /\ UNCHANGED <<project_client, remote_calls, app_pc, session, config, files>>
    /\ UNCHANGED citation_vars
    /\ UNCHANGED sink_vars

\* one step of the while loop of poll_run: the loop stands in one of its
\* waits, poll_at, and the step is what the code does when the wait ends,
\* up to the next wait or the return

\* time.sleep(poll_interval) returns: iteration_count += 1, then runs.get
\* is called
PollSleep ==
    /\ poll_pc = "loop"
    /\ poll_at = "time.sleep"
    /\ iteration_count < MaxPolls
    /\ iteration_count' = iteration_count + 1
    /\ poll_at' = RUNS_GET
    /\ UNCHANGED <<agents_client, on_citation, poll_pc, last_message_id,
                   seen_citations, run, progress, on_citation_calls, result,
                   research_status, remote_status, remote_message>>
    /\ UNCHANGED citation_vars
    /\ UNCHANGED sink_vars
    /\ UNCHANGED app_vars

\* runs.get returns the status of the run as it is now: run is assigned,
\* then _fetch_and_process_new_response calls get_last_message_by_role
PollGetRun ==
    \E status \in {remote_status} :
        /\ poll_pc = "loop"
        /\ poll_at = RUNS_GET
        /\ run' = status
        /\ remote_calls' = Append(remote_calls, RUNS_GET)
        /\ poll_at' = "fetch"
        /\ UNCHANGED <<agents_client, on_citation, poll_pc, iteration_count,
                       last_message_id, seen_citations, progress,
                       on_citation_calls, result, research_status,
                       remote_status, remote_message>>
        /\ UNCHANGED <<project_client, service_op, app_pc, session, config, files>>
        /\ UNCHANGED citation_vars
        /\ UNCHANGED sink_vars

\* the get_last_message_by_role of _fetch_and_process_new_response returns
\* the last agent message as it is now: the lines and the callbacks of the
\* response, last_message_id, then the test of run.status: for a status
\* that is not terminal the next sleep, for a terminal one the failure line
\* and the call of get_last_message_by_role for the final message
PollFetch ==
    \E response \in {remote_message} :
        /\ poll_pc = "loop"
        /\ poll_at = "fetch"
        /\ \E f \in {fetch_and_process_new_response(response, last_message_id,
                        [seen |-> seen_citations, progress |-> progress,
                         calls |-> on_citation_calls],
                        on_citation, iteration_count)} :
               /\ last_message_id' = f.id
               /\ seen_citations' = f.st.seen
               /\ on_citation_calls' = f.st.calls
               /\ progress' = IF IsTerminal(run)
                              THEN f.st.progress \o FailureLines(run)
                              ELSE f.st.progress
               /\ \E d \in {Delivered(Added(progress, progress'),
                                       Added(on_citation_calls, f.st.calls))} :
                      /\ session' = d.session
                      /\ files' = d.files
        /\ remote_calls' = Append(remote_calls, GET_LAST_MESSAGE)
        /\ poll_at' = IF IsTerminal(run) THEN "final" ELSE "time.sleep"
        /\ UNCHANGED <<agents_client, on_citation, poll_pc, iteration_count, run,
                       result, research_status, remote_status, remote_message>>
        /\ UNCHANGED <<project_client, service_op, app_pc, config>>
        /\ UNCHANGED citation_vars
        /\ UNCHANGED sink_vars

\* the get_last_message_by_role after the loop has ended returns the last
\* agent message as it is now: return run.status, final_message
PollFinal ==
    \E final \in {remote_message} :
        /\ poll_pc = "loop"
        /\ poll_at = "final"
        /\ remote_calls' = Append(remote_calls, GET_LAST_MESSAGE)
        /\ result' = [status |-> run, final_message |-> final]
        /\ service_op' = [service_op EXCEPT !.outcome = "returned"]
        /\ poll_pc' = "returned"
        /\ UNCHANGED <<agents_client, on_citation, poll_at, iteration_count,
                       last_message_id, seen_citations, run, progress,
                       on_citation_calls, research_status, remote_status,
                       remote_message>>
        /\ UNCHANGED <<project_client, app_pc, session, config, files>>
        /\ UNCHANGED citation_vars
        /\ UNCHANGED sink_vars

\* one iteration of the while loop, step by step
PollIteration == PollSleep \/ PollGetRun \/ PollFetch \/ PollFinal

\* the remote call the loop waits in raises: runs.get, the
\* get_last_message_by_role of _fetch_and_process_new_response, or, after
\* a terminal status, the get_last_message_by_role of the final message;
\* poll_run catches nothing
PollRaise ==
    /\ poll_pc = "loop"
    /\ poll_at # "time.sleep"
    /\ remote_calls' = Append(remote_calls,
                              IF poll_at = RUNS_GET THEN RUNS_GET ELSE GET_LAST_MESSAGE)
    /\ service_op' = [service_op EXCEPT !.outcome = "raised"]
    /\ poll_pc' = "raised"
    /\ UNCHANGED <<agents_client, on_citation, poll_at, iteration_count,
                   last_message_id, seen_citations, run, progress,
                   on_citation_calls, result, research_status,
                   remote_status, remote_message>>
    /\ UNCHANGED <<project_client, app_pc, session, config, files>>
    /\ UNCHANGED citation_vars
    /\ UNCHANGED sink_vars

\* the Cancel button of the UI: research_status = "cancelled"
CancelResearch ==
    /\ research_status = "running"
    /\ research_status' = "cancelled"
    /\ UNCHANGED <<agents_client, on_citation, poll_pc, poll_at, iteration_count,
                   last_message_id, seen_citations, run, progress,
                   on_citation_calls, result, remote_status, remote_message>>
    /\ UNCHANGED citation_vars
    /\ UNCHANGED sink_vars
    /\ UNCHANGED app_vars

\* the remote side while poll_run waits in any of its calls: the run
\* moves to another status unless it has ended, the thread shows another
\* last agent message; the remote side is followed as long as a call of
\* the loop that reads what changes is still to come (below MaxPolls, or
\* in the last iteration before that call)
RemoteStep ==
    /\ poll_pc = "loop"
    /\ \E status \in RunStatuses, message \in Responses :
           /\ IsTerminal(remote_status) => status = remote_status
           /\ status # remote_status =>
                  (poll_at = RUNS_GET \/ iteration_count < MaxPolls)
           /\ message # remote_message =>
                  (poll_at # "time.sleep" \/ iteration_count < MaxPolls)
           /\ <<status, message>> # <<remote_status, remote_message>>
           /\ remote_status' = status
           /\ remote_message' = message
    /\ UNCHANGED <<agents_client, on_citation, poll_pc, poll_at, iteration_count,
                   last_message_id, seen_citations, run, progress,
                   on_citation_calls, result, research_status>>
    /\ UNCHANGED citation_vars
    /\ UNCHANGED sink_vars
    /\ UNCHANGED app_vars

NextPoll ==
    \/ PollRunCall
    \/ PollSleep
    \/ PollGetRun
    \/ PollFetch
    \/ PollFinal
    \/ CancelResearch
    \/ RemoteStep
    \/ PollRaise

SpecPoll == InitPoll /\ [][NextPoll]_vars

\* the loop runs on: an iteration that can be taken is taken
SpecPollFair == SpecPoll /\ WF_vars(PollIteration)

\* C19: the polling loop checks an external flag between iterations: once
\* research_status is "cancelled", the loop does not poll again.
C19_CancelStopsPolling ==
    [][(poll_pc = "loop" /\ research_status = "cancelled") =>
          iteration_count' = iteration_count]_vars

---------------------------------------------------------------------------
(* Spans of the input that hold a list                                     *)

\* the text between <sup> and </sup> of a span piece
SpanBody(p) == SubSeq(p, Len(SUP_OPEN) + 1, Len(p) - Len(SUP_CLOSE))

\* the integers a span piece holds
SpanInts(p) ==
    {ParseInt(Elements(SpanBody(p))[k]) : k \in 1..Len(Elements(SpanBody(p)))}

\* C20 as stated: directly adjacent spans of which one holds a list are
\* merged into one span of all their integers, sorted and deduplicated.
C20_ListSpansMerged ==
    ( /\ pc = "done"
      /\ Len(parts) >= 2
      /\ \A k \in 1..Len(parts) : parts[k] \in SpanPieces
      /\ \E k \in 1..Len(parts) : parts[k] \in ListSpanPieces )
    => final_text =
           Span(CommaList(Ascending(UNION {SpanInts(parts[k]) : k \in 1..Len(parts)})))

\* C20: consolidation extracts the integer of every span in a run, and a run
\* is made of one-integer spans only: a span that holds a comma-separated
\* list belongs to no run, so it is returned as it stood and the text on
\* either side of it is converted as if it stood alone.
C20_ListSpanIsBarrier ==
    pc = "done" =>
        \A k \in 1..Len(parts) :
            parts[k] \in ListSpanPieces =>
                final_text =
                    convert_citations_to_superscript(Flatten(SubSeq(parts, 1, k - 1)))
                    \o parts[k]
                    \o convert_citations_to_superscript(
                           Flatten(SubSeq(parts, k + 1, Len(parts))))

\* a marker, a list span and two one-integer spans, all adjacent: the list
\* span stays, the two spans after it are consolidated without it
C20_Witness ==
    /\ pc = "done"
    /\ parts = <<MarkerOf(<<"3">>), Span(<<"4", ",", "1">>), Span(<<"7">>), Span(<<"2">>)>>
    /\ final_text = Span(<<"3">>) \o Span(<<"4", ",", "1">>) \o Span(<<"2", ",", "7">>)

---------------------------------------------------------------------------
(* convert_citations_to_superscript applied to its own output              *)

\* pieces of markers and spans: a text put together from them may hold a
\* marker or a span that no single piece holds, or a broken one
TwiceFragments ==
    {<<OPEN, "1", ":">>, <<"5">>, <<DAGGER, "s", CLOSE>>, SUP_OPEN, SUP_CLOSE}

TwicePieces == Pieces \cup TwiceFragments

MaxTwiceParts == 3

InitTwice ==
    /\ parts \in SeqsUpTo(TwicePieces, MaxTwiceParts)
    /\ markdown_content = Flatten(parts)
    /\ converted_text = <<>>
    /\ final_text = <<>>
    /\ annotations = <<>>
    /\ citations = <<>>
    /\ formatted = <<>>
    /\ pc = "call"
    /\ SinksIdle
    /\ PollIdle
    /\ AppIdle

\* the function called a second time, with the text it returned
ConvertAgain ==
    /\ pc = "done"
    /\ markdown_content' = final_text
    /\ converted_text' = SubMarkers(markdown_content', 1)
    /\ final_text' = SubRuns(converted_text', 1)
    /\ pc' = "again"
    /\ UNCHANGED <<parts, annotations, citations, formatted>>
    /\ UNCHANGED sink_vars
    /\ UNCHANGED poll_vars
    /\ UNCHANGED app_vars

NextTwice ==
    \/ Convert
    \/ ConvertAgain

SpecTwice == InitTwice /\ [][NextTwice]_vars

\* C21: convert_citations_to_superscript applied to its own output returns
\* it unchanged, and its output holds no two one-integer spans separated
\* only by whitespace and at most one comma.
C21_Idempotent ==
    /\ pc = "again" => final_text = markdown_content
    /\ pc = "done" => \A i \in 1..Len(final_text) : RunEnd(final_text, i) = 0

\* two markers of one citation and a one-integer span: the first call
\* returns the single span <sup>2,5</sup>, the second call returns it again
C21_Witness ==
    /\ pc = "again"
    /\ parts = <<MarkerOf(<<"5">>), MarkerOf(<<"5">>), Span(<<"2">>)>>
    /\ final_text = Span(<<"2", ",", "5">>)


(***************************************************************************)
(* poll_run: what it returns and when.                                     *)
(***************************************************************************)

NonTerminal == {"queued", "in_progress"}

\* C22: poll_run returns only after at least one poll, the status it returns
\* is the status runs.get returned in its last iteration and is never
\* "queued" or "in_progress", and an iteration that observed "queued" or
\* "in_progress" does not return: it never waits for the final message, the
\* only call poll_run returns from, and goes back to sleep, which an
\* iteration that observed another status never does.
C22_ReturnsObservedTerminalStatus ==
    /\ poll_pc = "returned" =>
          /\ iteration_count >= 1
          /\ poll_at = "final"
          /\ result.status = run
          /\ result.status = remote_status
          /\ result.status \notin NonTerminal
    /\ poll_pc = "loop" => result = NoResult
    /\ (poll_pc = "loop" /\ run \in NonTerminal) => poll_at # "final"
    /\ (poll_pc = "loop" /\ poll_at = "time.sleep" /\ iteration_count >= 1) =>
          run \in NonTerminal

\* poll_run has returned "cancelled" from its third poll, after two polls
\* that observed "queued" and "in_progress"
C22_Witness ==
    /\ poll_pc = "returned"
    /\ iteration_count = 3
    /\ result.status = "cancelled"
    /\ run = "cancelled"

\* C23: when the remote run has reached a status other than "queued" and
\* "in_progress", poll_run eventually returns, unless a remote call raises;
\* as long as the remote status is "queued" or "in_progress" no step makes
\* poll_run return and, whatever the number of polls made so far, the next
\* iteration can be taken.
C23_ReturnsWhenRunEnds ==
    /\ (poll_pc = "loop" /\ remote_status \notin NonTerminal)
           ~> (poll_pc \in {"returned", "raised"})
    /\ [][(poll_pc = "loop" /\ remote_status \in NonTerminal)
             => poll_pc' # "returned"]_vars
    /\ [][(poll_pc = "loop" /\ remote_status \in NonTerminal
             /\ iteration_count < MaxPolls)
             => ENABLED PollIteration]_vars

\* the remote run has ended after two polls that observed "in_progress";
\* poll_run is in its loop and has not yet observed the end
C23_Witness ==
    /\ poll_pc = "loop"
    /\ iteration_count = 2
    /\ run = "in_progress"
    /\ remote_status = "completed"

(***************************************************************************)
(* poll_run: what is reported, and how often.                              *)
(***************************************************************************)

\* line is the "Citation" line of url
IsCitationLineOf(line, url) == Len(line) = 7 /\ line[1] = BOOK /\ line[5] = url

CitationLinesOf(url) ==
    {i \in 1..Len(progress) : IsCitationLineOf(progress[i], url)}

CallsOf(url) ==
    {i \in 1..Len(on_citation_calls) : on_citation_calls[i].url = url}

\* C24: within one poll_run call the "Citation" line of a url is written
\* once, when the url is first seen, and never again; on_citation, when
\* given, is called once for the url, and never twice with the same url.
C24_CitedOnce ==
    \A url \in Urls :
        /\ Cardinality(CitationLinesOf(url)) <= 1
        /\ Cardinality(CallsOf(url)) <= 1
        /\ url \in seen_citations <=> CitationLinesOf(url) # {}
        /\ on_citation # None =>
               Cardinality(CallsOf(url)) = Cardinality(CitationLinesOf(url))
        /\ on_citation = None => CallsOf(url) = {}

\* two messages that both cite u1 and u2 have been processed, the second
\* in a later iteration: each url has one line and one call
C24_Witness ==
    /\ on_citation # None
    /\ last_message_id = "m2"
    /\ \E i \in 1..Len(progress) : progress[i] = <<"Reasoning:", "r1">>
    /\ \A url \in Urls : Cardinality(CitationLinesOf(url)) = 1
    /\ Len(on_citation_calls) = 2

\* agent_text of a message: its cot_summary texts, prefix replaced, joined
AgentTextOf(message) ==
    JoinNewline(ReplaceAll(SelectSeq(message.text_messages, IsCotSummary)))

\* the places of the sink output that hold the progress text of message
TextLinesOf(message) ==
    {i \in 1..Len(progress) : progress[i] = AgentTextOf(message)}

\* C25: within one poll_run call the progress text of an agent message is
\* written to the sinks at most once, whatever sequence of last agent
\* messages the remote returns.
C25_MessageWrittenOnce ==
    \A message \in Responses :
        SelectSeq(message.text_messages, IsCotSummary) # <<>>
            => Cardinality(TextLinesOf(message)) <= 1

\* the places of the sink output that hold the "Run failed" line
FailureLinesWritten == {i \in 1..Len(progress) : progress[i] = RunFailedLine}

\* C26: a run that ends "failed" makes poll_run return, with the status
\* "failed" and the last agent message of the thread, after writing one
\* "Run failed" line as the last line of its output; a call that has not
\* returned "failed" has written no such line.
C26_FailureSurfaced ==
    /\ (poll_pc = "returned" /\ result.status = "failed") =>
          /\ Cardinality(FailureLinesWritten) = 1
          /\ progress[Len(progress)] = RunFailedLine
    /\ FailureLinesWritten # {} => run = "failed"
    /\ (poll_pc = "returned" /\ result.status # "failed") =>
          FailureLinesWritten = {}
    /\ poll_pc = "returned" => result.final_message = remote_message

\* the run failed in the second poll, whose response processing wrote the
\* text of m1; the thread's last agent message is m2 when poll_run returns
C26_Witness ==
    /\ poll_pc = "returned"
    /\ result.status = "failed"
    /\ iteration_count = 2
    /\ \E i \in 1..Len(progress) : progress[i] = AgentResponseLine(2)
    /\ result.final_message.id = "m2"
    /\ last_message_id = "m1"

(***************************************************************************)
(* The live registry and the registry of the report.  One message with the *)
(* annotation sequence annotations is processed by                         *)
(* _fetch_and_process_new_response, from an empty seen_citations and with  *)
(* handle_citation_callback as on_citation; the same sequence is given to  *)
(* extract_citations_from_annotations.                                     *)
(***************************************************************************)

\* the message processed: one cot_summary text and the annotations
AnnotatedMessage(anns) == Message("m", <<(<<COT, "r">>)>>, anns)

InitRegistry ==
    /\ annotations \in SeqsUpTo({Annotation(u, ti) : u \in Urls, ti \in Titles},
                                MaxAnnotations)
    /\ citations = <<>>
    /\ formatted = <<>>
    /\ parts = <<>>
    /\ markdown_content = <<>>
    /\ converted_text = <<>>
    /\ final_text = <<>>
    /\ pc = "call"
    /\ SinksIdle
    /\ agents_client = TRUE
    /\ on_citation = "handle_citation_callback"
    /\ poll_pc = "fetch"
    /\ poll_at = "fetch"
    /\ iteration_count = 1
    /\ last_message_id = None
    /\ seen_citations = {}
    /\ run = "in_progress"
    /\ progress = <<>>
    /\ on_citation_calls = <<>>
    /\ result = NoResult
    /\ research_status = "running"
    /\ remote_status = "in_progress"
    /\ remote_message = AnnotatedMessage(annotations)
    /\ AppIdle

\* one call of _fetch_and_process_new_response
FetchOne ==
    /\ poll_pc = "fetch"
    /\ LET f == fetch_and_process_new_response(remote_message, last_message_id,
                    [seen |-> seen_citations, progress |-> progress,
                     calls |-> on_citation_calls],
                    on_citation, iteration_count)
       IN  /\ last_message_id' = f.id
           /\ seen_citations' = f.st.seen
           /\ progress' = f.st.progress
           /\ on_citation_calls' = f.st.calls
           /\ LET d == Delivered(Added(progress, f.st.progress),
                                 Added(on_citation_calls, f.st.calls))
              IN  /\ session' = d.session
                  /\ files' = d.files
    /\ remote_calls' = Append(remote_calls, GET_LAST_MESSAGE)
    /\ poll_pc' = "fetched"
    /\ UNCHANGED <<agents_client, on_citation, poll_at, iteration_count, run, result,
                   research_status, remote_status, remote_message>>
    /\ UNCHANGED <<project_client, service_op, app_pc, config>>
    /\ UNCHANGED citation_vars
    /\ UNCHANGED sink_vars

NextRegistry ==
    \/ Extract
    \/ FetchOne

SpecRegistry == InitRegistry /\ [][NextRegistry]_vars

\* the keys of a dict, in order
KeysOf(d) == [k \in 1..Len(d) |-> d[k].key]

\* the urls on_citation was called with, in call order
CalledUrls == [k \in 1..Len(on_citation_calls) |-> on_citation_calls[k].url]

\* both registries have been built
BothBuilt == pc = "done" /\ poll_pc = "fetched"

\* C28: the urls passed to on_citation are the keys of the extracted mapping,
\* in the same order, and the registry built by handle_citation_callback maps
\* every url to the title the extracted mapping gives it.
C28_RegistriesAgree ==
    BothBuilt =>
        /\ CalledUrls = KeysOf(citations)
        /\ KeysOf(session.citations) = KeysOf(citations)
        /\ \A k \in 1..Len(citations) :
               Lookup(session.citations, citations[k].key) = citations[k].value

\* C28, as the code has it: the urls passed to on_citation are the keys of
\* the extracted mapping, in the same order; the registry built by
\* handle_citation_callback gives a url the title of its first annotation,
\* the extracted mapping the title of its last one, so that the two titles
\* of a url are equal exactly when those two annotations resolve to the
\* same title.
C28_FirstTitleAgainstLast ==
    BothBuilt =>
        /\ CalledUrls = KeysOf(citations)
        /\ KeysOf(session.citations) = KeysOf(citations)
        /\ \A k \in 1..Len(annotations) :
               LET url == annotations[k].url
               IN  /\ k = FirstIndex(annotations, url) =>
                          Lookup(session.citations, url) = Resolved(annotations[k])
                   /\ IsLastOfUrl(annotations, k) =>
                          Lookup(citations, url) = Resolved(annotations[k])

\* u1 with title T1, u2, then u1 with title T2: the live registry holds T1
\* for u1, the extracted mapping T2
C28_Witness ==
    /\ BothBuilt
    /\ annotations = <<Annotation("u1", Title("T1")), Annotation("u2", NoTitle),
                       Annotation("u1", Title("T2"))>>
    /\ CalledUrls = <<"u1", "u2">>
    /\ Lookup(session.citations, "u1") = "T1"
    /\ Lookup(citations, "u1") = "T2"

(***************************************************************************)
(* The operations of AgentsService, as a caller of the service may call    *)
(* them in any order (app_pc = "service") and as run_research calls them   *)
(* in its own order (app_pc names the operation run_research is at).  A    *)
(* remote call returns or raises.                                          *)
(***************************************************************************)

MaxServiceCalls == 3

\* the names of the other remote calls
GET_CONNECTION_STRING == "telemetry.get_application_insights_connection_string"
CONNECTIONS_GET == "connections.get"
CREATE_AGENT == "agents.create_agent"
THREADS_CREATE == "threads.create"
MESSAGES_CREATE == "messages.create"
RUNS_CREATE == "runs.create"
DELETE_AGENT == "agents.delete_agent"

\* the operation is called now: the caller is not inside another operation
Caller(name) ==
    /\ service_op.outcome # "entered"
    /\ \/ app_pc = name
       \/ /\ app_pc = "service"
          /\ poll_pc # "loop"
          /\ service_op.n < MaxServiceCalls

\* where the caller stands after the operation
Continue(raised, next) ==
    app_pc' = IF app_pc = "service" THEN "service"
              ELSE IF raised THEN "except" ELSE next

\* the operation and its outcome, recorded
Record(name, outcome) ==
    [n |-> service_op.n + 1, name |-> name, outcome |-> outcome,
     succeeded |-> service_op.succeeded]

\* the guard of create_agent with project_client alone
ClientsMissing_ProjectClientOnly(pclient, aclient) == ~pclient

\* create_agent: if not self.project_client or not self.agents_client
ClientsMissing(pclient, aclient) == ~pclient \/ ~aclient

\* the other operations: if not self.agents_client
AgentsClientMissing(aclient) == ~aclient

\* the operation name of the service is waiting in one of its calls
Waiting(name) == service_op.name = name /\ service_op.outcome = "entered"

\* create_clients up to its wait: the credential and AIProjectClient(...)
\* raise, or self.project_client is assigned and configure_telemetry is
\* called
CreateClients ==
    \E raised \in BOOLEAN :
        /\ Caller("create_clients")
        /\ project_client' = IF raised THEN project_client ELSE TRUE
        /\ service_op' = Record("create_clients", IF raised THEN "raised" ELSE "entered")
        /\ app_pc' = IF raised /\ app_pc # "service" THEN "except" ELSE app_pc
        /\ UNCHANGED <<agents_client, on_citation, poll_pc, poll_at, iteration_count,
                       last_message_id, seen_citations, run, progress,
                       on_citation_calls, result, research_status, remote_status,
                       remote_message>>
        /\ UNCHANGED <<remote_calls, session, config, files>>
        /\ UNCHANGED citation_vars
        /\ UNCHANGED sink_vars

\* configure_telemetry(self.project_client) ends: it raises, or it returns
\* and self.agents_client is assigned
CreateClientsEnd ==
    \E raised \in BOOLEAN :
        /\ Waiting("create_clients")
        /\ remote_calls' = Append(remote_calls, GET_CONNECTION_STRING)
        /\ agents_client' = IF raised THEN agents_client ELSE TRUE
        /\ service_op' = [service_op EXCEPT
                             !.outcome = IF raised THEN "raised" ELSE "returned",
                             !.succeeded = @ \/ ~raised]
        /\ Continue(raised, "create_agent")
        /\ UNCHANGED <<on_citation, poll_pc, poll_at, iteration_count, last_message_id,
                       seen_citations, run, progress, on_citation_calls, result,
                       research_status, remote_status, remote_message>>
        /\ UNCHANGED <<project_client, session, config, files>>
        /\ UNCHANGED citation_vars
        /\ UNCHANGED sink_vars

\* an operation that makes the remote calls rcalls one after the other once
\* its guard has passed; the call number raises_at raises (0: none does)
GuardedOperation(name, missing, rcalls, raises_at, next) ==
    /\ Caller(name)
    /\ IF missing
       THEN /\ remote_calls' = remote_calls
            /\ service_op' = Record(name, "ValueError")
            /\ Continue(TRUE, next)
       ELSE /\ remote_calls' = remote_calls \o
                   (IF raises_at = 0 THEN rcalls ELSE SubSeq(rcalls, 1, raises_at))
            /\ service_op' = Record(name, IF raises_at = 0 THEN "returned" ELSE "raised")
            /\ Continue(raises_at # 0, next)
    /\ UNCHANGED <<project_client, session, config, files>>
    /\ UNCHANGED <<agents_client, on_citation, poll_pc, poll_at, iteration_count,
                   last_message_id, seen_citations, run, progress,
                   on_citation_calls, result, research_status>>
    /\ UNCHANGED citation_vars
    /\ UNCHANGED sink_vars

\* create_agent up to its second wait: the guard, then connections.get,
\* which raises, or returns so that agents_client.create_agent is called
CreateAgent ==
    \E raised \in BOOLEAN :
        /\ Caller("create_agent")
        /\ IF ClientsMissing(project_client, agents_client)
           THEN /\ remote_calls' = remote_calls
                /\ service_op' = Record("create_agent", "ValueError")
                /\ Continue(TRUE, "create_thread")
           ELSE /\ remote_calls' = Append(remote_calls, CONNECTIONS_GET)
                /\ service_op' = Record("create_agent",
                                        IF raised THEN "raised" ELSE "entered")
                /\ app_pc' = IF raised /\ app_pc # "service" THEN "except" ELSE app_pc
        /\ UNCHANGED <<agents_client, on_citation, poll_pc, poll_at, iteration_count,
                       last_message_id, seen_citations, run, progress,
                       on_citation_calls, result, research_status, remote_status,
                       remote_message>>
        /\ UNCHANGED <<project_client, session, config, files>>
        /\ UNCHANGED citation_vars
        /\ UNCHANGED sink_vars

\* agents_client.create_agent ends: it raises, or create_agent returns the
\* agent
CreateAgentEnd ==
    \E raised \in BOOLEAN :
        /\ Waiting("create_agent")
        /\ remote_calls' = Append(remote_calls, CREATE_AGENT)
        /\ service_op' = [service_op EXCEPT
                             !.outcome = IF raised THEN "raised" ELSE "returned"]
        /\ Continue(raised, "create_thread")
        /\ UNCHANGED <<agents_client, on_citation, poll_pc, poll_at, iteration_count,
                       last_message_id, seen_citations, run, progress,
                       on_citation_calls, result, research_status, remote_status,
                       remote_message>>
        /\ UNCHANGED <<project_client, session, config, files>>
        /\ UNCHANGED citation_vars
        /\ UNCHANGED sink_vars

\* create_thread
CreateThread ==
    \E raises_at \in 0..1 :
        /\ GuardedOperation("create_thread", AgentsClientMissing(agents_client),
                            <<THREADS_CREATE>>, raises_at, "create_message")
        /\ UNCHANGED <<remote_status, remote_message>>

\* create_message
CreateMessage ==
    \E raises_at \in 0..1 :
        /\ GuardedOperation("create_message", AgentsClientMissing(agents_client),
                            <<MESSAGES_CREATE>>, raises_at, "setup_sinks")
        /\ UNCHANGED <<remote_status, remote_message>>

\* start_run: the run it creates is queued, its thread has no agent message
StartRun ==
    \E raises_at \in 0..1 :
        /\ GuardedOperation("start_run", AgentsClientMissing(agents_client),
                            <<RUNS_CREATE>>, raises_at, "poll_run")
        /\ IF AgentsClientMissing(agents_client) \/ raises_at # 0
           THEN UNCHANGED <<remote_status, remote_message>>
           ELSE /\ remote_status' = "queued"
                /\ remote_message' = NoMessage

\* cleanup_agent
CleanupAgent ==
    \E raises_at \in 0..1 :
        /\ GuardedOperation("cleanup_agent", AgentsClientMissing(agents_client),
                            <<DELETE_AGENT>>, raises_at, "return")
        /\ UNCHANGED <<remote_status, remote_message>>

\* a new AgentsService; the run polled, when poll_run is called without
\* start_run, is in progress or completed and stays so
InitService ==
    /\ project_client = FALSE
    /\ agents_client = FALSE
    /\ remote_calls = <<>>
    /\ service_op = NoServiceOp
    /\ app_pc = "service"
    /\ session = EmptySession
    /\ config = [save_files |-> FALSE]
    /\ files = NoFiles
    /\ on_citation \in {None, "handle_citation_callback"}
    /\ poll_pc = "idle"
    /\ poll_at = None
    /\ iteration_count = 0
    /\ last_message_id = None
    /\ seen_citations = {}
    /\ run = None
    /\ progress = <<>>
    /\ on_citation_calls = <<>>
    /\ result = NoResult
    /\ research_status = "idle"
    /\ remote_status \in {"in_progress", "completed"}
    /\ remote_message \in Responses
    /\ CitationsIdle
    /\ SinksIdle

NextService ==
    \/ CreateClients
    \/ CreateClientsEnd
    \/ CreateAgent
    \/ CreateAgentEnd
    \/ CreateThread
    \/ CreateMessage
    \/ StartRun
    \/ CleanupAgent
    \/ PollRunCall
    \/ PollSleep
    \/ PollGetRun
    \/ PollFetch
    \/ PollFinal
    \/ PollRaise

SpecService == InitService /\ [][NextService]_vars

\* the operations guarded by the clients
GuardedOperations == {"create_agent", "create_thread", "create_message",
                      "start_run", "poll_run", "cleanup_agent"}

\* the step is a call of one of the guarded operations
GuardedCall == service_op'.n # service_op.n /\ service_op'.name \in GuardedOperations

\* C27: a guarded operation called before create_clients has returned raises
\* ValueError and leaves the remote calls made, the sink output, the clients
\* and the locals of poll_run as they were; once create_clients has returned
\* both clients are set and no guarded operation raises ValueError.
C27_GuardedUntilClientsCreated ==
    /\ [][(GuardedCall /\ ~service_op.succeeded) =>
             /\ service_op'.outcome = "ValueError"
             /\ remote_calls' = remote_calls
             /\ progress' = progress
             /\ on_citation_calls' = on_citation_calls
             /\ session' = session
             /\ files' = files
             /\ <<project_client, agents_client>>' = <<project_client, agents_client>>
             /\ <<iteration_count, last_message_id, seen_citations, run, result>>'
                    = <<iteration_count, last_message_id, seen_citations, run, result>>]_vars
    /\ [][(GuardedCall /\ service_op.succeeded) =>
             service_op'.outcome # "ValueError"]_vars
    /\ [](service_op.succeeded => (project_client /\ agents_client))

\* create_clients raised in configure_telemetry, leaving project_client set
\* and agents_client unset; create_agent, called next, raised ValueError
C27_Witness ==
    /\ project_client
    /\ ~agents_client
    /\ service_op.n = 2
    /\ service_op.name = "create_agent"
    /\ service_op.outcome = "ValueError"
    /\ remote_calls = <<GET_CONNECTION_STRING>>

(***************************************************************************)
(* app.py: main handling the Start button, and run_research.               *)
(***************************************************************************)

\* "\n\n".join(ls)
RECURSIVE JoinBlankLine(_)
JoinBlankLine(ls) ==
    IF Len(ls) = 0 THEN <<>>
    ELSE IF Len(ls) = 1 THEN ls[1]
         ELSE ls[1] \o <<"\n", "\n">> \o JoinBlankLine(Tail(ls))

\* t.strip(): the text without the white space at its two ends
RECURSIVE Strip(_)
Strip(t) ==
    IF Len(t) = 0 THEN t
    ELSE IF IsSpace(t[1]) THEN Strip(Tail(t))
    ELSE IF IsSpace(t[Len(t)]) THEN Strip(SubSeq(t, 1, Len(t) - 1))
    ELSE t

\* the texts ts, each stripped
StripAll(ts) == [k \in 1..Len(ts) |-> Strip(ts[k])]

\* the lines of the "## Citations" section from entry i on
RECURSIVE CitationSection(_, _)
CitationSection(d, i) ==
    IF i > Len(d) THEN <<>>
    ELSE FormatEntry(i, <<d[i].key>>, <<d[i].value>>) \o <<"\n">>
             \o CitationSection(d, i + 1)

\* create_research_summary: the markdown report of a message
create_research_summary(message) ==
    LET formatted_text ==
            convert_citations_to_superscript(
                JoinBlankLine(StripAll(message.text_messages)))
        citations_dict ==
            extract_citations_from_annotations(message.url_citation_annotations)
    IN  IF Len(citations_dict) = 0 THEN formatted_text
        ELSE formatted_text \o <<"\n", "\n", "## Citations", "\n">>
                 \o CitationSection(citations_dict, 1)

\* the line holds the word "iteration"
HasIteration(line) ==
    \E k \in 1..Len(line) : line[k] = " Agent response (iteration "

\* get_research_metrics, without the elapsed time
get_research_metrics(final_message, citations_count, buffer) ==
    [present |-> TRUE,
     total_citations |-> citations_count,
     iteration_count |-> Cardinality({i \in 1..Len(buffer) : HasIteration(buffer[i])}),
     has_final_message |-> final_message # NoMessage,
     final_message_citations |-> Len(final_message.url_citation_annotations)]

\* the status main sets after run_research, by the final status of the run
StatusAfterReturn_ByRunStatus(final_status) ==
    IF final_status = "failed" THEN "failed" ELSE "completed"

\* main: st.session_state.research_status = "completed"
StatusAfterReturn(final_status) == "completed"

\* an except clause that deletes the agent
CleanupOnError_Always(calls_made) == <<DELETE_AGENT>>

\* the remote calls of the except clause of run_research: none
CleanupOnError(calls_made) == <<>>

\* what an earlier run left in the session
Leftover ==
    [ui_buffer |-> <<AgentResponseLine(1), <<"Reasoning:", "r1">>, <<"\n">>>>,
     citations |-> <<[key |-> "u1", value |-> "T1"]>>,
     final_report |-> <<"Reasoning:", "r1">>,
     research_metrics |-> [present |-> TRUE, total_citations |-> 1,
                           iteration_count |-> 1, has_final_message |-> TRUE,
                           final_message_citations |-> 0]]

\* the files an earlier run left
OldProgress == [dir |-> TRUE, exists |-> TRUE, content |-> <<"o", "l", "d">>]
OldReport == [dir |-> TRUE, exists |-> TRUE, content |-> <<"Reasoning:", "r0">>]

\* the session when Start is pressed: new, or after an earlier run that
\* completed, or failed in create_clients or later
Sessions ==
    {[session |-> EmptySession, status |-> "idle", pclient |-> FALSE, aclient |-> FALSE],
     [session |-> Leftover, status |-> "completed", pclient |-> TRUE, aclient |-> TRUE],
     [session |-> EmptySession, status |-> "failed", pclient |-> TRUE, aclient |-> FALSE],
     [session |-> Leftover, status |-> "failed", pclient |-> TRUE, aclient |-> TRUE]}

InitApp ==
    /\ \E s \in Sessions :
           /\ session = s.session
           /\ research_status = s.status
           /\ project_client = s.pclient
           /\ agents_client = s.aclient
    /\ config \in [save_files : BOOLEAN]
    /\ files \in [progress : {Absent, OldProgress}, report : {Absent, OldReport}]
    /\ remote_calls = <<>>
    /\ service_op = NoServiceOp
    /\ app_pc = "main"
    /\ on_citation = "handle_citation_callback"
    /\ poll_pc = "idle"
    /\ poll_at = None
    /\ iteration_count = 0
    /\ last_message_id = None
    /\ seen_citations = {}
    /\ run = None
    /\ progress = <<>>
    /\ on_citation_calls = <<>>
    /\ result = NoResult
    /\ remote_status = None
    /\ remote_message = NoMessage
    /\ CitationsIdle
    /\ SinksIdle

\* main, Start pressed: the session cleared, the status set
Start ==
    /\ app_pc = "main"
    /\ research_status # "running"
    /\ session' = [session EXCEPT !.ui_buffer = <<>>, !.citations = <<>>,
                                  !.final_report = <<>>,
                                  !.research_metrics = NoMetrics]
    /\ research_status' = "running"
    /\ app_pc' = "run_research"
    /\ UNCHANGED <<agents_client, on_citation, poll_pc, poll_at, iteration_count,
                   last_message_id, seen_citations, run, progress,
                   on_citation_calls, result, remote_status, remote_message>>
    /\ UNCHANGED <<project_client, remote_calls, service_op, config, files>>
    /\ UNCHANGED citation_vars
    /\ UNCHANGED sink_vars

\* os.remove(file_path) inside its own try: the file removed, or left in
\* place by an OSError that is caught and printed
Remove(file, os_error) == IF os_error THEN file ELSE Absent

\* run_research, before its try block: for each of research_progress.txt and
\* research_report.md, the file of an earlier run removed if it exists, the
\* OSError of one file not touching the other
DeleteFiles ==
    \E os_error \in [progress : BOOLEAN, report : BOOLEAN] :
        /\ app_pc = "run_research"
        /\ os_error.progress => files.progress.exists
        /\ os_error.report => files.report.exists
        /\ files' = [progress |-> Remove(files.progress, os_error.progress),
                     report |-> Remove(files.report, os_error.report)]
        /\ app_pc' = "create_clients"
        /\ UNCHANGED poll_vars
        /\ UNCHANGED <<project_client, remote_calls, service_op, session, config>>
        /\ UNCHANGED citation_vars
        /\ UNCHANGED sink_vars

\* sinks = [UISink(...)], FileSink("research_progress.txt") when save_files,
\* MultiSink(sinks): the directory of the file is made, no file is written
SetupSinks ==
    /\ app_pc = "setup_sinks"
    /\ app_pc' = "start_run"
    /\ UNCHANGED poll_vars
    /\ UNCHANGED <<project_client, remote_calls, service_op, session, config, files>>
    /\ UNCHANGED citation_vars
    /\ UNCHANGED sink_vars

\* _save_report_to_file(content, "research_report.md"): open(filepath, "w")
\* creates the file empty or truncates it, fp.write and the close of the
\* file fill it; a failure before the file is opened (os.makedirs, open)
\* leaves it as it was, a failure after the write (os.path.getsize) leaves
\* the content written, and a write that fails leaves what reached the file
\* before: the first n pieces of the content and the first k characters of
\* the next piece, nothing at all for n = 0 and k = 0
save_report_to_file(file, content, raises_at, n, k) ==
    IF raises_at = "open" THEN file
    ELSE IF raises_at = "write"
         THEN [dir |-> TRUE, exists |-> TRUE,
               content |-> SubSeq(content, 1, n) \o
                           (IF k = 0 THEN <<>> ELSE <<SubSeq(content[n + 1], 1, k)>>)]
         ELSE [dir |-> TRUE, exists |-> TRUE, content |-> content]

\* if final_message: create_research_summary(...), which writes
\* research_report.md when save_files is set and raises when that fails,
\* a failing write after any proper part of the report; final_report is
\* assigned after it has returned
Report ==
    \E raises_at \in {None, "open", "write", "getsize"} :
        /\ app_pc = "poll_run"
        /\ poll_pc = "returned"
        /\ raises_at # None => (result.final_message # NoMessage /\ config.save_files)
        /\ IF result.final_message = NoMessage
           THEN UNCHANGED <<session, files>>
           ELSE LET report_md == create_research_summary(result.final_message)
                IN  \E n \in IF raises_at = "write" THEN 0..(Len(report_md) - 1) ELSE {0} :
                    \E k \in IF raises_at = "write" THEN 0..(Len(report_md[n + 1]) - 1) ELSE {0} :
                        /\ session' = IF raises_at = None
                                      THEN [session EXCEPT !.final_report = report_md]
                                      ELSE session
                        /\ files' = IF config.save_files
                                    THEN [files EXCEPT !.report =
                                             save_report_to_file(@, report_md, raises_at, n, k)]
                                    ELSE files
        /\ app_pc' = IF raises_at # None THEN "except" ELSE "metrics"
        /\ UNCHANGED poll_vars
        /\ UNCHANGED <<project_client, remote_calls, service_op, config>>
        /\ UNCHANGED citation_vars
        /\ UNCHANGED sink_vars

\* st.session_state.research_metrics = get_research_metrics(...)
Metrics ==
    /\ app_pc = "metrics"
    /\ session' = [session EXCEPT !.research_metrics =
                      get_research_metrics(result.final_message,
                                           Len(session.citations),
                                           session.ui_buffer)]
    /\ app_pc' = "cleanup_agent"
    /\ UNCHANGED poll_vars
    /\ UNCHANGED <<project_client, remote_calls, service_op, config, files>>
    /\ UNCHANGED citation_vars
    /\ UNCHANGED sink_vars

\* run_research returned: main sets the status
ReturnToMain ==
    /\ app_pc = "return"
    /\ research_status' = StatusAfterReturn(result.status)
    /\ app_pc' = "completed"
    /\ UNCHANGED <<agents_client, on_citation, poll_pc, poll_at, iteration_count,
                   last_message_id, seen_citations, run, progress,
                   on_citation_calls, result, remote_status, remote_message>>
    /\ UNCHANGED <<project_client, remote_calls, service_op, session, config, files>>
    /\ UNCHANGED citation_vars
    /\ UNCHANGED sink_vars

\* except Exception: research_status = "failed"; raise
Except ==
    /\ \/ app_pc = "except"
       \/ app_pc = "poll_run" /\ poll_pc \in {"raised", "ValueError"}
    /\ research_status' = "failed"
    /\ remote_calls' = remote_calls \o CleanupOnError(remote_calls)
    /\ app_pc' = "raised"
    /\ UNCHANGED <<agents_client, on_citation, poll_pc, poll_at, iteration_count,
                   last_message_id, seen_citations, run, progress,
                   on_citation_calls, result, remote_status, remote_message>>
    /\ UNCHANGED <<project_client, service_op, session, config, files>>
    /\ UNCHANGED citation_vars
    /\ UNCHANGED sink_vars

NextApp ==
    \/ Start
    \/ DeleteFiles
    \/ CreateClients
    \/ CreateClientsEnd
    \/ CreateAgent
    \/ CreateAgentEnd
    \/ CreateThread
    \/ CreateMessage
    \/ SetupSinks
    \/ StartRun
    \/ PollRunCall
    \/ PollSleep
    \/ PollGetRun
    \/ PollFetch
    \/ PollFinal
    \/ PollRaise
    \/ RemoteStep
    \/ CancelResearch
    \/ Report
    \/ Metrics
    \/ CleanupAgent
    \/ ReturnToMain
    \/ Except

SpecApp == InitApp /\ [][NextApp]_vars

\* run_research has been entered and main has not become idle again
RunStarted == app_pc \notin {"none", "service", "main"}

\* an operation of run_research has raised: the exception is on its way to
\* the except clause, or has left run_research
Raising ==
    \/ app_pc \in {"except", "raised"}
    \/ app_pc = "poll_run" /\ poll_pc \in {"raised", "ValueError"}

\* C29: the step that handles Start empties ui_buffer, citations,
\* final_report and research_metrics and sets research_status to "running",
\* with run_research not yet begun; from then on research_status is
\* "completed" exactly when run_research has returned without exception,
\* whatever status the remote run ended with, and "failed" exactly when
\* run_research has raised, and a step of a run that has raised never sets
\* "completed".
C29_StatusFollowsRun ==
    /\ [][(app_pc = "main" /\ app_pc' # "main") =>
             /\ session' = EmptySession
             /\ research_status' = "running"
             /\ app_pc' = "run_research"
             /\ remote_calls' = remote_calls
             /\ files' = files]_vars
    /\ [](RunStarted =>
             /\ research_status = "completed" <=> app_pc = "completed"
             /\ research_status = "failed" <=> app_pc = "raised")
    /\ [](app_pc = "completed" =>
             /\ poll_pc = "returned"
             /\ service_op.name = "cleanup_agent"
             /\ service_op.outcome = "returned")
    /\ [][Raising => (Raising' /\ research_status' # "completed")]_vars

\* the remote run ended "failed", poll_run wrote the failure line to the
\* buffer of the session and returned that status, run_research returned
\* and main set "completed"
C29_Witness ==
    /\ app_pc = "completed"
    /\ research_status = "completed"
    /\ result.status = "failed"
    /\ \E i \in 1..Len(session.ui_buffer) : session.ui_buffer[i] = RunFailedLine
    /\ session.citations # <<>>
    /\ session.research_metrics.present

\* the places of the remote call log that hold the call name
CallsNamed(name) == {i \in 1..Len(remote_calls) : remote_calls[i] = name}

\* the agent of the run has been created
AgentCreated ==
    \E i \in CallsNamed(CREATE_AGENT) :
        ~(service_op.name = "create_agent" /\ service_op.outcome = "raised"
          /\ i = Len(remote_calls))

\* C30: run_research calls delete_agent at most once, and only after
\* poll_run has returned, the report of a final message has been stored and
\* the metrics have been stored; a run_research that returned has called it
\* once; a run_research in which an operation other than cleanup_agent
\* raised has not called it, also when the agent had been created.
C30_AgentDeletedOnSuccessOnly ==
    /\ RunStarted => Cardinality(CallsNamed(DELETE_AGENT)) <= 1
    /\ (RunStarted /\ CallsNamed(DELETE_AGENT) # {}) =>
          /\ poll_pc = "returned"
          /\ service_op.name = "cleanup_agent"
          /\ AgentCreated
          /\ session.research_metrics.present
          /\ result.final_message # NoMessage =>
                 session.final_report = create_research_summary(result.final_message)
          /\ remote_calls[Len(remote_calls)] = DELETE_AGENT
    /\ app_pc \in {"return", "completed"} => Cardinality(CallsNamed(DELETE_AGENT)) = 1
    /\ (Raising /\ service_op.name # "cleanup_agent") => CallsNamed(DELETE_AGENT) = {}

\* the agent was created, poll_run raised in its second iteration and
\* run_research left through its except clause: delete_agent was not called
C30_Witness ==
    /\ app_pc = "raised"
    /\ AgentCreated
    /\ poll_pc = "raised"
    /\ iteration_count = 2
    /\ research_status = "failed"
    /\ CallsNamed(DELETE_AGENT) = {}
=============================================================================
